---- MODULE Spec2Model ----
(***************************************************************************)
(* A model of the GaaS request handler (gaas_server/gaas_handler.py):      *)
(* the graph registry, the dask client life cycle and the graph creation   *)
(* extensions, as one state machine whose actions are the handler's RPC    *)
(* operations.  Requests are served one at a time (TSimpleServer), so each *)
(* action is one whole handler call.                                       *)
(***************************************************************************)
EXTENDS Integers, Sequences, FiniteSets, TLC

\* ------------------------------------------------------------------ bounds
\* Ids are handed out while next_graph_id <= MaxGraphId.
MaxGraphId == 2
\* Graph objects are constructed while next_oid <= MaxObjs.
MaxObjs == 2
\* Client(...) is constructed while fewer than MaxClients clients are open.
MaxClients == 2
\* Property tables have up to MaxRows rows.
MaxRows == 2
\* A list of row indices has up to MaxIndices elements.
MaxIndices == 2
\* Up to MaxConns clients are connected to the server.
MaxConns == 2

\* defaults.graph_id: the id of the lazily created default graph.
DefaultGraphId == 0

VARIABLES
    next_graph_id,      \* GaasHandler.__next_graph_id
    graph_objs,         \* GaasHandler.__graph_objs: an insertion-ordered dict,
                        \* a sequence of [k |-> graph id, v |-> graph object]
    graph_creation_extensions, \* GaasHandler.__graph_creation_extensions: an
                        \* insertion-ordered dict, [k |-> module name, v |-> module]
    dask_client,        \* GaasHandler.__dask_client: NoClient or a client
    dask_cluster,       \* GaasHandler.__dask_cluster: NoCluster or a cluster
    comms_initialized,  \* cugraph.dask.comms: Comms.is_initialized()
    open_clients,       \* the dask clients constructed and not yet closed
    next_oid,           \* identity of the next graph object constructed
    last,               \* the last request: operation, arguments, outcome
    create_rets,        \* history: the ids create_graph returned, in call order
    deleted,            \* history: the ids delete_graph removed from the registry
    load_order,         \* history: the module names loaded since the last
                        \* unload, in the order each was loaded first
    marshal,            \* a dataframe-rows request on a property table: the
                        \* table, the arguments and (once served) the result
    server              \* the thrift server and its clients: each client
                        \* connection with its call in flight and the
                        \* statement of the handler the call has reached

vars == <<next_graph_id, graph_objs, graph_creation_extensions, dask_client,
          dask_cluster, comms_initialized, open_clients,
          next_oid, last, create_rets, deleted, load_order, marshal, server>>

\* ------------------------------------------------- python dict, ordered
\* d.get(k) is not None / k in d
DictHas(d, k) == \E i \in 1..Len(d) : d[i].k = k

DictIndex(d, k) == CHOOSE i \in 1..Len(d) : d[i].k = k

\* d.get(k, dflt)
DictGet(d, k, dflt) == IF DictHas(d, k) THEN d[DictIndex(d, k)].v ELSE dflt

\* A dict in which an assignment to an existing key moves the key last.
DictSet_MovesToEnd(d, k, v) ==
    Append(SelectSeq(d, LAMBDA e : e.k # k), [k |-> k, v |-> v])

\* A dict in which an assignment to an existing key is ignored.
DictSet_KeepsOld(d, k, v) ==
    IF DictHas(d, k) THEN d ELSE Append(d, [k |-> k, v |-> v])

\* d[k] = v : an existing key keeps its position, a new key goes last
DictSet(d, k, v) ==
    IF DictHas(d, k)
    THEN [d EXCEPT ![DictIndex(d, k)] = [k |-> k, v |-> v]]
    ELSE Append(d, [k |-> k, v |-> v])

\* the dict left by d.pop(k, None)
DictPop(d, k) == SelectSeq(d, LAMBDA e : e.k # k)

\* list(d.keys())
DictKeys(d) == [i \in 1..Len(d) |-> d[i].k]

\* list(d.values())
DictValues(d) == [i \in 1..Len(d) |-> d[i].v]

SeqToSet(s) == {s[i] : i \in 1..Len(s)}

\* ------------------------------------------------------- graph objects
\* Python's None, as a value of the registry.
NoneObj == [kind |-> "None", oid |-> 0, src |-> 0, loaded |-> FALSE]

\* A graph object: its class (PropertyGraph "PG", MGPropertyGraph "MGPG",
\* cugraph.Graph "G"), its identity, the identity of the graph it was
\* extracted from (0: none) and whether data was loaded into it.
GraphObj(kind, oid, src, loaded) ==
    [kind |-> kind, oid |-> oid, src |-> src, loaded |-> loaded]

\* Python's None, as the value of __dask_client and of __dask_cluster.
NoClient == 0
NoCluster == 0

\* GaasHandler.mg
mg == dask_client # NoClient

\* isinstance(G, (PropertyGraph, MGPropertyGraph))
IsAnyPropertyGraph(G) == G.kind \in {"PG", "MGPG"}

\* isinstance(G, PropertyGraph)
IsPropertyGraph(G) == G.kind = "PG"

\* A __create_graph that ignores the mode and always makes a PropertyGraph.
CreateKind_AlwaysSG(m) == "PG"

\* The kind __create_graph makes when the handler's mg flag is m.
CreateKind(m) == IF m THEN "MGPG" ELSE "PG"

\* GaasHandler.__create_graph: a new empty graph for the current mode.
CreateGraphObj == GraphObj(CreateKind(mg), next_oid, 0, FALSE)

\* An __add_graph that stores G under the id before the counter value.
AddGraphId_Previous(n) == n - 1

\* __add_graph: the id G is stored under is the current counter value.
AddGraphId(n) == n

\* An __add_graph that forgets to advance the counter.
AddGraphNext_NoIncrement(n) == n

\* __add_graph: the counter after the insertion.
AddGraphNext(n) == n + 1

\* __add_graph: the registry with G stored under gid.
AddGraph(objs, gid, G) == DictSet(objs, gid, G)

\* A delete_graph that never raises.
DeleteRaises_Never(objs, gid) == FALSE

\* delete_graph: pop(graph_id, None) is None, the condition it raises on.
DeleteRaises(objs, gid) == DictGet(objs, gid, NoneObj) = NoneObj

\* A delete_graph that leaves the entry in place.
DeleteObjs_Keeps(objs, gid) == objs

\* A delete_graph that also removes the graphs extracted from the deleted one.
DeleteObjs_Cascades(objs, gid) ==
    SelectSeq(objs, LAMBDA e :
        /\ e.k # gid
        /\ ~(DictHas(objs, gid) /\ e.v.src # 0
             /\ e.v.src = DictGet(objs, gid, NoneObj).oid))

\* delete_graph: the registry pop(graph_id, None) leaves.
DeleteObjs(objs, gid) == DictPop(objs, gid)

\* _get_graph: self.__graph_objs.get(graph_id) is None.
GetIsNone(objs, gid) == DictGet(objs, gid, NoneObj) = NoneObj

\* A _get_graph that makes a new default graph on every access.
GetCreates_EveryAccess(objs, gid) == gid = DefaultGraphId

\* _get_graph: the default graph is created.
GetCreates(objs, gid) == GetIsNone(objs, gid) /\ gid = DefaultGraphId

\* A _get_graph that never raises.
GetRaises_Never(objs, gid) == FALSE

\* _get_graph: raises GaasError("invalid graph_id").
GetRaises(objs, gid) == GetIsNone(objs, gid) /\ gid # DefaultGraphId

\* _get_graph: the registry it leaves, newG being what __create_graph makes.
GetObjs(objs, gid, newG) ==
    IF GetCreates(objs, gid) THEN DictSet(objs, gid, newG) ELSE objs

\* _get_graph: the graph it returns (when it does not raise).
GetGraph(objs, gid, newG) ==
    IF GetCreates(objs, gid) THEN newG ELSE DictGet(objs, gid, NoneObj)

\* Graph objects are references: a change to the object with identity oid
\* shows under every id it is stored under.
SetLoaded(objs, oid) ==
    [i \in 1..Len(objs) |->
        IF objs[i].v.oid = oid /\ objs[i].v # NoneObj
        THEN [objs[i] EXCEPT !.v.loaded = TRUE]
        ELSE objs[i]]

\* The graph ids a client may send: the default id, every id the bounded
\* counter can hand out, and one it never hands out.
GraphIdArgs == DefaultGraphId..(MaxGraphId + 1)

\* The request record: operation, graph id argument, error raised, value
\* returned, list returned, function name and path arguments, the mode it ran
\* in, and
\* (ev) the calls it made to the dask client, the cluster, Comms, eval and
\* the extension function, in the order it made them, and (called) the
\* extension module whose function it called.
Req(op, gid, err, ret) ==
    [op |-> op, gid |-> gid, err |-> err, ret |-> ret, ids |-> <<>>,
     fn |-> <<>>, path |-> "", mg |-> mg, ev |-> <<>>, called |-> <<>>]

\* The handler as GaasHandler.__init__ leaves it.
InitHandler ==
    /\ next_graph_id = DefaultGraphId + 1
    /\ graph_objs = <<>>
    /\ graph_creation_extensions = <<>>
    /\ dask_client = NoClient
    /\ dask_cluster = NoCluster
    /\ comms_initialized = FALSE
    /\ open_clients = {}
    /\ next_oid = 1
    /\ last = Req("init", -1, "none", -1)
    /\ create_rets = <<>>
    /\ deleted = {}
    /\ load_order = <<>>

\* No dataframe-rows request is followed in detail.
NoMarshal == [done |-> TRUE]

\* A client connection: the statement its call has reached (pc; "closed"
\* before create_client, "idle" between calls, "sent" while the call waits
\* for the server), the operation called once the server has read it (op),
\* the graph object the handler holds (G, by identity), the local gid of
\* __add_graph (loc), and whether the client still waits for the reply.
Conn(pc, op, G, loc, waiting) ==
    [pc |-> pc, op |-> op, G |-> G, loc |-> loc, waiting |-> waiting]

\* A connection without a call.
NoCall(pc) == Conn(pc, "", 0, -1, FALSE)

Conns == 1..MaxConns

\* The server create_server returns, before any client connects: no
\* connection, the lock (where one is used) free, no default graph made.
InitServer ==
    [conn |-> [c \in Conns |-> NoCall("closed")],
     lock |-> 0,
     made |-> 0]

Init == InitHandler /\ marshal = NoMarshal /\ server = InitServer

UnchangedCluster ==
    UNCHANGED <<dask_client, dask_cluster, comms_initialized, open_clients>>

UnchangedHistory == UNCHANGED <<create_rets, deleted, load_order>>

\* The model constructs a graph object only while identities are left.
CanConstruct == next_oid <= MaxObjs

\* The model allocates an id only while the bounded counter allows.
CanAllocate == next_graph_id <= MaxGraphId

\* create_graph(): a graph of the current mode under a new id.
create_graph ==
    /\ CanAllocate /\ CanConstruct
    /\ graph_objs' = AddGraph(graph_objs, AddGraphId(next_graph_id),
                              CreateGraphObj)
    /\ next_graph_id' = AddGraphNext(next_graph_id)
    /\ next_oid' = next_oid + 1
    /\ last' = Req("create_graph", -1, "none", AddGraphId(next_graph_id))
    /\ create_rets' = Append(create_rets, AddGraphId(next_graph_id))
    /\ UnchangedCluster /\ UNCHANGED <<marshal, server>>
    /\ UNCHANGED <<graph_creation_extensions, deleted, load_order>>

\* delete_graph(graph_id): pops the entry, raises when the popped value is None.
delete_graph ==
    \E gid \in GraphIdArgs :
        /\ graph_objs' = DeleteObjs(graph_objs, gid)
        /\ last' = Req("delete_graph", gid,
                       IF DeleteRaises(graph_objs, gid) THEN "GaasError"
                       ELSE "none", -1)
        /\ deleted' = IF DictHas(graph_objs, gid) /\ ~DictHas(graph_objs', gid)
                      THEN deleted \cup {gid} ELSE deleted
        /\ UnchangedCluster /\ UNCHANGED <<marshal, server>>
        /\ UNCHANGED <<next_graph_id, next_oid, graph_creation_extensions,
                       create_rets, load_order>>

\* get_graph_ids(): list(self.__graph_objs.keys())
get_graph_ids ==
    /\ last' = [Req("get_graph_ids", -1, "none", -1)
                   EXCEPT !.ids = DictKeys(graph_objs)]
    /\ UnchangedCluster /\ UNCHANGED <<marshal, server>> /\ UnchangedHistory
    /\ UNCHANGED <<next_graph_id, graph_objs, next_oid,
                   graph_creation_extensions>>

\* The part every graph-addressed operation starts with, G = _get_graph(gid):
\* when it raises, the request ends with GaasError and nothing changes.
GetGraphFails(op, gid) ==
    /\ GetRaises(graph_objs, gid)
    /\ last' = Req(op, gid, "GaasError", -1)
    /\ UNCHANGED <<graph_objs, next_oid>>

\* The model lets _get_graph construct the default graph only while
\* identities are left.
GetEnabled(gid) == GetCreates(graph_objs, gid) => CanConstruct

\* next_oid after _get_graph(gid).
OidAfterGet(gid) ==
    IF GetCreates(graph_objs, gid) THEN next_oid + 1 ELSE next_oid

\* An operation that, after G = _get_graph(gid), changes no handler state:
\* err and ret are its outcome given G, ev the calls it makes.
ReadGraphEv(op, gid, err, ret, ev) ==
    /\ GetEnabled(gid)
    /\ \/ GetGraphFails(op, gid)
       \/ /\ ~GetRaises(graph_objs, gid)
          /\ graph_objs' = GetObjs(graph_objs, gid, CreateGraphObj)
          /\ next_oid' = OidAfterGet(gid)
          /\ last' = [Req(op, gid, err, ret) EXCEPT !.ev = ev]
    /\ UnchangedCluster /\ UNCHANGED <<marshal, server>> /\ UnchangedHistory
    /\ UNCHANGED <<next_graph_id, graph_creation_extensions>>

\* The same, for an operation whose calls are not recorded.
ReadGraph(op, gid, err, ret) == ReadGraphEv(op, gid, err, ret, <<>>)

\* The engine's count for a graph: 0 for an empty graph.
NumOf(G) == IF G.loaded THEN 1 ELSE 0

\* What an attribute of the property graph API does on G: a property graph
\* has it; what a cugraph.Graph does is the engine's (either outcome).
AttrOutcomes(G) == IF IsAnyPropertyGraph(G) THEN {"none"} ELSE {"none", "other"}

\* get_num_edges(graph_id): _get_graph, then pG.num_edges
get_num_edges ==
    \E gid \in GraphIdArgs :
        LET G == GetGraph(graph_objs, gid, CreateGraphObj) IN
        \E e \in AttrOutcomes(G) :
            ReadGraph("get_num_edges", gid, e,
                      IF e = "none" THEN NumOf(G) ELSE -1)

\* get_num_vertices(graph_id): _get_graph, then pG.num_vertices
get_num_vertices ==
    \E gid \in GraphIdArgs :
        LET G == GetGraph(graph_objs, gid, CreateGraphObj) IN
        \E e \in AttrOutcomes(G) :
            ReadGraph("get_num_vertices", gid, e,
                      IF e = "none" THEN NumOf(G) ELSE -1)

\* get_graph_type(graph_id): repr(type(_get_graph(graph_id)))
get_graph_type ==
    \E gid \in GraphIdArgs :
        ReadGraph("get_graph_type", gid, "none", -1)

\* get_graph_info(keys, graph_id): invalid keys raise before _get_graph;
\* then the counts, by the property graph API or by the cugraph.Graph API.
get_graph_info ==
    \E gid \in GraphIdArgs, keys_valid \in BOOLEAN :
        IF ~keys_valid
        THEN /\ last' = Req("get_graph_info", gid, "GaasError", -1)
             /\ UnchangedCluster /\ UNCHANGED <<marshal, server>> /\ UnchangedHistory
             /\ UNCHANGED <<next_graph_id, graph_objs, next_oid,
                            graph_creation_extensions>>
        ELSE LET G == GetGraph(graph_objs, gid, CreateGraphObj) IN
             ReadGraph("get_graph_info", gid, "none", NumOf(G))

\* A load of a CSV into G: the engine call is inside try/except, so every
\* failure (a bad file, an object without add_*_data) is a GaasError.
LoadOutcomes(G) ==
    IF IsAnyPropertyGraph(G) THEN {"none", "GaasError"} ELSE {"GaasError"}

\* load_csv_as_vertex_data / load_csv_as_edge_data: _get_graph, then read the
\* CSV and add it to the graph object (which is changed in place).
LoadCsv(op) ==
    \E gid \in GraphIdArgs :
        /\ GetEnabled(gid)
        /\ \/ GetGraphFails(op, gid)
           \/ /\ ~GetRaises(graph_objs, gid)
              /\ LET G == GetGraph(graph_objs, gid, CreateGraphObj)
                     objs1 == GetObjs(graph_objs, gid, CreateGraphObj)
                 IN \E e \in LoadOutcomes(G) :
                       /\ graph_objs' = IF e = "none"
                                        THEN SetLoaded(objs1, G.oid)
                                        ELSE objs1
                       /\ last' = Req(op, gid, e, -1)
              /\ next_oid' = OidAfterGet(gid)
        /\ UnchangedCluster /\ UNCHANGED <<marshal, server>> /\ UnchangedHistory
        /\ UNCHANGED <<next_graph_id, graph_creation_extensions>>

load_csv_as_vertex_data == LoadCsv("load_csv_as_vertex_data")

load_csv_as_edge_data == LoadCsv("load_csv_as_edge_data")

\* get_edge_IDs_for_vertices: refuses a property graph; the lookup in
\* G.edge_data is not inside a try.
get_edge_IDs_for_vertices ==
    \E gid \in GraphIdArgs :
        LET G == GetGraph(graph_objs, gid, CreateGraphObj) IN
        \E e \in IF IsAnyPropertyGraph(G) THEN {"GaasError"}
                 ELSE {"none", "other"} :
            ReadGraphEv("get_edge_IDs_for_vertices", gid, e, -1,
                        IF IsAnyPropertyGraph(G) THEN <<>> ELSE <<"engine">>)

\* batched_ego_graphs / node2vec: refuse a PropertyGraph (the test is
\* isinstance(G, PropertyGraph), which an MGPropertyGraph does not pass);
\* the engine call is inside try/except.
Algo(op) ==
    \E gid \in GraphIdArgs :
        LET G == GetGraph(graph_objs, gid, CreateGraphObj) IN
        \E e \in IF IsPropertyGraph(G) THEN {"GaasError"}
                 ELSE {"none", "GaasError"} :
            ReadGraphEv(op, gid, e, -1,
                        IF IsPropertyGraph(G) THEN <<>> ELSE <<"engine">>)

batched_ego_graphs == Algo("batched_ego_graphs")

node2vec == Algo("node2vec")

\* is_vertex_property / is_edge_property: a bool for a PropertyGraph (the
\* membership test in the property dataframe is the engine's), else GaasError.
IsProperty(op) ==
    \E gid \in GraphIdArgs :
        LET G == GetGraph(graph_objs, gid, CreateGraphObj) IN
        \E e \in IF IsPropertyGraph(G) THEN {"none", "other"}
                 ELSE {"GaasError"} :
            ReadGraph(op, gid, e, -1)

is_vertex_property == IsProperty("is_vertex_property")

is_edge_property == IsProperty("is_edge_property")

\* get_graph_vertex_dataframe_rows / get_graph_edge_dataframe_rows: the
\* property dataframe of the graph is read outside any try (an object without
\* one, or a None dataframe, raises as it is), the rows inside try/except.
DataframeRows(op) ==
    \E gid \in GraphIdArgs :
        LET G == GetGraph(graph_objs, gid, CreateGraphObj) IN
        \E e \in IF IsAnyPropertyGraph(G) /\ G.loaded
                 THEN {"none", "GaasError", "other"} ELSE {"other"} :
            ReadGraph(op, gid, e, -1)

get_graph_vertex_dataframe_rows == DataframeRows("get_graph_vertex_dataframe_rows")

get_graph_edge_dataframe_rows == DataframeRows("get_graph_edge_dataframe_rows")

\* extract_subgraph: if not(isinstance(pG, (PropertyGraph, MGPropertyGraph)))
ExtractRefuses(G) == ~IsAnyPropertyGraph(G)

\* extract_subgraph: _get_graph, refuses a graph without properties, extracts
\* inside try/except and stores the extracted graph under a new id.
extract_subgraph ==
    \E gid \in GraphIdArgs :
        /\ GetEnabled(gid)
        /\ \/ /\ GetGraphFails("extract_subgraph", gid)
              /\ UNCHANGED <<next_graph_id>>
           \/ /\ ~GetRaises(graph_objs, gid)
              /\ LET G == GetGraph(graph_objs, gid, CreateGraphObj)
                     objs1 == GetObjs(graph_objs, gid, CreateGraphObj)
                     oid1 == OidAfterGet(gid)
                     R(err, ret, ev) ==
                         [Req("extract_subgraph", gid, err, ret)
                             EXCEPT !.ev = ev]
                 IN \/ /\ ExtractRefuses(G)
                       /\ graph_objs' = objs1
                       /\ next_oid' = oid1
                       /\ last' = R("GaasError", -1, <<>>)
                       /\ UNCHANGED next_graph_id
                    \/ /\ ~ExtractRefuses(G)
                       \* pG.extract_subgraph(...) raises
                       /\ graph_objs' = objs1
                       /\ next_oid' = oid1
                       /\ last' = R("GaasError", -1, <<"engine">>)
                       /\ UNCHANGED next_graph_id
                    \/ /\ ~ExtractRefuses(G)
                       /\ CanAllocate /\ oid1 <= MaxObjs
                       /\ graph_objs' = AddGraph(objs1, AddGraphId(next_graph_id),
                                           GraphObj("G", oid1, G.oid, G.loaded))
                       /\ next_graph_id' = AddGraphNext(next_graph_id)
                       /\ next_oid' = oid1 + 1
                       /\ last' = R("none", AddGraphId(next_graph_id),
                                    <<"engine", "__add_graph">>)
        /\ UnchangedCluster /\ UNCHANGED <<marshal, server>> /\ UnchangedHistory
        /\ UNCHANGED <<graph_creation_extensions>>

\* uniform_neighbor_sample: _get_graph, then (nothing inside a try) extracts
\* from a PropertyGraph, samples, builds a PropertyGraph of the sample (from
\* a PropertyGraph) or a cugraph.Graph, and stores it under a new id.
uniform_neighbor_sample ==
    \E gid \in GraphIdArgs :
        /\ GetEnabled(gid)
        /\ \/ /\ GetGraphFails("uniform_neighbor_sample", gid)
              /\ UNCHANGED <<next_graph_id>>
           \/ /\ ~GetRaises(graph_objs, gid)
              /\ LET G == GetGraph(graph_objs, gid, CreateGraphObj)
                     objs1 == GetObjs(graph_objs, gid, CreateGraphObj)
                     oid1 == OidAfterGet(gid)
                 IN \/ \* the engine raises
                       /\ graph_objs' = objs1
                       /\ next_oid' = oid1
                       /\ last' = Req("uniform_neighbor_sample", gid, "other", -1)
                       /\ UNCHANGED next_graph_id
                    \/ /\ CanAllocate /\ oid1 <= MaxObjs
                       /\ graph_objs' = AddGraph(objs1, AddGraphId(next_graph_id),
                             GraphObj(IF IsPropertyGraph(G) THEN "PG" ELSE "G",
                                      oid1, 0, G.loaded))
                       /\ next_graph_id' = AddGraphNext(next_graph_id)
                       /\ next_oid' = oid1 + 1
                       /\ last' = Req("uniform_neighbor_sample", gid, "none",
                                      AddGraphId(next_graph_id))
        /\ UnchangedCluster /\ UNCHANGED <<marshal, server>> /\ UnchangedHistory
        /\ UNCHANGED <<graph_creation_extensions>>

\* An operation that reads or changes nothing of the handler's state.
Stateless(op, err) ==
    /\ last' = Req(op, -1, err, -1)
    /\ UnchangedCluster /\ UNCHANGED <<marshal, server>> /\ UnchangedHistory
    /\ UNCHANGED <<next_graph_id, graph_objs, next_oid,
                   graph_creation_extensions>>

\* pagerank(graph_id): raise NotImplementedError
pagerank == Stateless("pagerank", "other")

\* uptime()
uptime == Stateless("uptime", "none")

\* get_server_info()
get_server_info == Stateless("get_server_info", "none")

\* ------------------------------------------------------- dask client
\* initialize_dask_client(dask_scheduler_file): without a scheduler file it
\* raises NotImplementedError; with one it constructs a Client (which raises
\* when the scheduler cannot be reached), stores it, and initializes Comms
\* unless Comms.is_initialized().
\* The Client object Client(scheduler_file=...) constructs: one not open.
NewClient == CHOOSE c \in 1..MaxClients : c \notin open_clients

\* initialize_dask_client: Comms.initialize(p2p=True) runs unless
\* Comms.is_initialized(); either way Comms is initialized afterwards.
CommsAfterInitialize(c) == TRUE

\* shutdown_dask_client: Comms.destroy()
CommsAfterDestroy(c) == FALSE

\* A shutdown_dask_client that keeps the reference to the closed client.
ClientAfterShutdown_Keeps(c) == c

\* shutdown_dask_client: self.__dask_client = None
ClientAfterShutdown(c) == NoClient

\* shutdown_dask_client: the clients open after self.__dask_client.close()
OpenAfterClose(open, c) == open \ {c}

\* A change of mode that drops the graphs of the distributed kind.
RegistryAfterModeChange_DropsDistributed(objs) ==
    SelectSeq(objs, LAMBDA e : e.v.kind # "MGPG")

\* The registry after initialize_dask_client or shutdown_dask_client: neither
\* has a statement on __graph_objs.
RegistryAfterModeChange(objs) == objs

\* An initialize_dask_client that calls Comms.initialize every time.
CommsInitializeRuns_Always(c) == TRUE

\* initialize_dask_client: if not Comms.is_initialized(), the condition under
\* which Comms.initialize(p2p=True) is called.
CommsInitializeRuns(c) == ~c

\* initialize_dask_client: the calls a successful request makes.
InitializeProgram(c) ==
    <<"Client()">> \o
    (IF CommsInitializeRuns(c) THEN <<"Comms.initialize">> ELSE <<>>)

initialize_dask_client ==
    \E has_file \in BOOLEAN, connects \in BOOLEAN :
        /\ IF has_file /\ connects
           THEN /\ Cardinality(open_clients) < MaxClients
                /\ dask_client' = NewClient
                /\ open_clients' = open_clients \cup {NewClient}
                /\ comms_initialized' = CommsAfterInitialize(comms_initialized)
                /\ last' = [Req("initialize_dask_client", -1, "none", -1)
                               EXCEPT !.ev = InitializeProgram(comms_initialized)]
           ELSE /\ last' = Req("initialize_dask_client", -1, "other", -1)
                /\ UNCHANGED <<dask_client, open_clients, comms_initialized>>
        /\ UNCHANGED <<dask_cluster, marshal, server>>
        /\ UnchangedHistory
        /\ graph_objs' = RegistryAfterModeChange(graph_objs)
        /\ UNCHANGED <<next_graph_id, next_oid, graph_creation_extensions>>

\* The coordinator's fields and the library state they refer to, as a record
\* the statements of shutdown_dask_client work on.
Coord(client, cluster, comms, open) ==
    [client |-> client, cluster |-> cluster, comms |-> comms, open |-> open]

\* A shutdown_dask_client without the test of the client.
ShutdownActs_Always(c) == TRUE

\* shutdown_dask_client: if self.__dask_client is not None
ShutdownActs(c) == c # NoClient

\* A shutdown_dask_client that forgets the client before it closes it.
ShutdownProgram_ForgetsFirst(st) ==
    IF ShutdownActs(st.client)
    THEN <<"client=None", "Comms.destroy", "client.close">>
    ELSE <<>>

\* shutdown_dask_client: the statements it executes, in order.
ShutdownProgram(st) ==
    IF ShutdownActs(st.client)
    THEN <<"Comms.destroy", "client.close">> \o
         (IF st.cluster # NoCluster
          THEN <<"cluster.close", "cluster=None">> ELSE <<>>) \o
         <<"client=None">>
    ELSE <<>>

\* The effect of one statement of shutdown_dask_client.
ShutdownStep(st, stmt) ==
    CASE stmt = "Comms.destroy" ->
            [st EXCEPT !.comms = CommsAfterDestroy(st.comms)]
      [] stmt = "client.close" ->
            [st EXCEPT !.open = OpenAfterClose(st.open, st.client)]
      [] stmt = "cluster.close" -> st
      [] stmt = "cluster=None" -> [st EXCEPT !.cluster = NoCluster]
      [] stmt = "client=None" ->
            [st EXCEPT !.client = ClientAfterShutdown(st.client)]

RECURSIVE RunShutdown(_, _)
\* The coordinator after the statements stmts, executed from st.
RunShutdown(st, stmts) ==
    IF stmts = <<>> THEN st
    ELSE RunShutdown(ShutdownStep(st, Head(stmts)), Tail(stmts))

\* The body of shutdown_dask_client, for the request op.
Shutdown(op) ==
    LET st == Coord(dask_client, dask_cluster, comms_initialized, open_clients)
        end == RunShutdown(st, ShutdownProgram(st))
    IN
    /\ dask_client' = end.client
    /\ dask_cluster' = end.cluster
    /\ comms_initialized' = end.comms
    /\ open_clients' = end.open
    /\ last' = [Req(op, -1, "none", -1) EXCEPT !.ev = ShutdownProgram(st)]
    /\ UnchangedHistory /\ UNCHANGED <<marshal, server>>
    /\ graph_objs' = RegistryAfterModeChange(graph_objs)
    /\ UNCHANGED <<next_graph_id, next_oid, graph_creation_extensions>>

\* shutdown_dask_client(): with a client, Comms.destroy(), client.close(),
\* the cluster (if any) closed and forgotten, the client forgotten.
shutdown_dask_client == Shutdown("shutdown_dask_client")

\* GaasHandler.__del__: self.shutdown_dask_client()
__del__ == Shutdown("__del__")

\* ---------------------------------------------- graph creation extensions
\* Function names are strings of characters.
Name_f == <<"f">>
Name_g == <<"g">>
Name_x == <<"x">>
Name_priv == <<"_", "_", "h">>
Name_unknown == <<"n">>
FuncNames == {Name_f, Name_g, Name_x, Name_priv, Name_unknown}

\* A call_graph_creation_extension that does not test the name.
StartsWithDunder_Never(name) == FALSE

\* func_name.startswith("__")
StartsWithDunder(name) == Len(name) >= 2 /\ name[1] = "_" /\ name[2] = "_"

\* The extension files on the server's disk: the stem of each and what each
\* function it defines does when called ("pg": returns a PropertyGraph with
\* data, "facade": returns an empty graph of the kind the facade's mg tells,
\* "none": returns None, "raise": raises, "intrude": reaches the handler
\* through the facade's _ExtensionServerFacade__handler attribute, clears its
\* __graph_objs and returns None).
ModA1 == [stem |-> "a_extension", ver |-> 1]
ModA2 == [stem |-> "a_extension", ver |-> 2]
ModB == [stem |-> "b_extension", ver |-> 1]

\* getattr(module, func_name, None): "absent" stands for None.
GetAttr(module, name) ==
    CASE module = ModA1 /\ name = Name_f -> "pg"
      [] module = ModA1 /\ name = Name_priv -> "pg"
      [] module = ModA2 /\ name = Name_f -> "facade"
      [] module = ModA2 /\ name = Name_x -> "intrude"
      [] module = ModB /\ name = Name_f -> "none"
      [] module = ModB /\ name = Name_g -> "raise"
      [] OTHER -> "absent"

\* The attributes of the ExtensionServerFacade instance an extension function
\* is given: the mg property, the get_server_info method, and the handler
\* itself, which self.__handler = gaas_handler stores under the mangled name.
FacadeAttrs == {"mg", "get_server_info", "_ExtensionServerFacade__handler"}

\* The attributes of the facade that give access to the handler's fields.
FacadeHandlerAttrs == FacadeAttrs \ {"mg", "get_server_info"}

\* The paths a client may send: two directories of extension files, a path
\* that does not exist and the path of a regular file.
ExtensionDirs == {"dir1", "dir2"}
Paths == ExtensionDirs \cup {"nodir", "afile"}

\* extension_dir.exists()
PathExists(path) == path # "nodir"

\* extension_dir.is_dir()
PathIsDir(path) == path \in ExtensionDirs

\* A load_graph_creation_extensions that only tests that the path exists.
LoadRaises_OnlyMissing(path) == ~PathExists(path)

\* load_graph_creation_extensions: the condition it raises "bad directory" on.
LoadRaises(path) == (~PathExists(path)) \/ (~PathIsDir(path))

\* A module that is not to be loaded: no loaded module has an attribute of it.
ModC == [stem |-> "c_extension", ver |-> 1]

\* A file below a directory: the name it ends with ("_extension.py" for
\* a_extension.py), whether it lies in a subdirectory, and the module its
\* code makes (named by its stem).
File(suffix, nested, module) ==
    [suffix |-> suffix, nested |-> nested, module |-> module]

\* What is below each directory, in one scan order: dir1 holds one extension
\* file, a file of another name and an extension file in a subdirectory;
\* dir2 holds two extension files (one a second version of dir1's
\* a_extension.py) and a text file.
DirListing(dir) ==
    CASE dir = "dir1" ->
            <<File("_extension.py", FALSE, ModA1),
              File("_helper.py", FALSE, ModC),
              File("_extension.py", TRUE, ModC)>>
      [] dir = "dir2" ->
            <<File("_extension.py", FALSE, ModB),
              File("_extension.txt", FALSE, ModC),
              File("_extension.py", FALSE, ModA2)>>
      [] OTHER -> <<>>

\* A glob that descends into subdirectories.
GlobMatches_Recursive(file) == file.suffix = "_extension.py"

\* Path.glob("*_extension.py"): the pattern, matched against the entries of
\* the directory itself.
GlobMatches(file) == file.suffix = "_extension.py" /\ ~file.nested

\* extension_dir.glob("*_extension.py"): the modules of the matching files
\* of the directory, in one scan order.
Glob(dir) ==
    LET found == SelectSeq(DirListing(dir), GlobMatches)
    IN [i \in 1..Len(found) |-> found[i].module]

\* The orders in which glob may yield the files: that of the directory scan,
\* which is the file system's.
GlobOrders(dir) ==
    LET files == Glob(dir) IN
    IF Len(files) = 2 THEN {files, <<files[2], files[1]>>} ELSE {files}

RECURSIVE LoadAll(_, _)
\* The loop of load_graph_creation_extensions over the files found.
LoadAll(exts, files) ==
    IF files = <<>> THEN exts
    ELSE LoadAll(DictSet(exts, Head(files).stem, Head(files)), Tail(files))

\* The history of first loads after the files are loaded.
LoadOrderAfter(order, files) ==
    order \o SelectSeq([i \in 1..Len(files) |-> files[i].stem],
                       LAMBDA stem : \A j \in 1..Len(order) : order[j] # stem)

\* load_graph_creation_extensions(extension_dir_path)
load_graph_creation_extensions ==
    \E path \in Paths :
        LET R(err, ret) == [Req("load_graph_creation_extensions", -1, err, ret)
                               EXCEPT !.path = path]
        IN
        /\ IF LoadRaises(path)
           THEN /\ last' = R("GaasError", -1)
                /\ UNCHANGED <<graph_creation_extensions, load_order>>
           ELSE \E files \in GlobOrders(path) :
                /\ graph_creation_extensions' =
                       LoadAll(graph_creation_extensions, files)
                /\ load_order' = LoadOrderAfter(load_order, files)
                /\ last' = R("none", Len(files))
        /\ UnchangedCluster /\ UNCHANGED <<marshal, server>>
        /\ UNCHANGED <<next_graph_id, graph_objs, next_oid, create_rets,
                       deleted>>

\* An unload that keeps the module loaded first.
UnloadExts_KeepsFirst(exts) == IF exts = <<>> THEN <<>> ELSE <<Head(exts)>>

\* self.__graph_creation_extensions.clear()
UnloadExts(exts) == <<>>

\* unload_graph_creation_extensions()
unload_graph_creation_extensions ==
    /\ graph_creation_extensions' = UnloadExts(graph_creation_extensions)
    /\ load_order' = <<>>
    /\ last' = Req("unload_graph_creation_extensions", -1, "none", -1)
    /\ UnchangedCluster /\ UNCHANGED <<marshal, server>>
    /\ UNCHANGED <<next_graph_id, graph_objs, next_oid, create_rets, deleted>>

\* The modules, in dict order, that define name.
Defining(exts, name) ==
    SelectSeq(DictValues(exts), LAMBDA m : GetAttr(m, name) # "absent")

\* The function call_graph_creation_extension finds for func_name: that of
\* the first module defining it; "absent" for a private name or no module.
FindFunc(exts, name) ==
    IF StartsWithDunder(name) \/ Defining(exts, name) = <<>>
    THEN "absent"
    ELSE GetAttr(Head(Defining(exts, name)), name)

\* A call_graph_creation_extension that evaluates the arguments before it
\* searches the modules.
EvalsArgs_Always(does) == TRUE

\* call_graph_creation_extension: eval(func_args_repr) and
\* eval(func_kwargs_repr) run once a function was found.
EvalsArgs(does) == does # "absent"

\* A call_graph_creation_extension that stores a result also when the
\* function raised.
ExtensionStores_Always(does) == TRUE

\* call_graph_creation_extension: __add_graph runs when the function returned.
ExtensionStores(does) == does # "raise"

\* The object an extension function returns.
ExtensionResult(does, m, oid) ==
    CASE does = "pg" -> GraphObj("PG", oid, 0, TRUE)
      [] does = "facade" -> GraphObj(CreateKind(m), oid, 0, FALSE)
      [] OTHER -> NoneObj

\* The registry an extension function leaves when it returns: it can change
\* it if the facade has an attribute that gives the handler.
ExtensionRegistry(does, objs) ==
    IF does = "intrude" /\ FacadeHandlerAttrs # {} THEN <<>> ELSE objs

\* call_graph_creation_extension(func_name, func_args_repr, func_kwargs_repr)
call_graph_creation_extension ==
    \E name \in FuncNames, args_eval_ok \in BOOLEAN :
        LET does == FindFunc(graph_creation_extensions, name)
            evals == EvalsArgs(does)
            \* eval(func_args_repr) raises, outside the try
            eval_raises == evals /\ ~args_eval_ok
            runs == does # "absent" /\ ~eval_raises
            stores == runs /\ ExtensionStores(does)
            constructs == runs /\ does \in {"pg", "facade"}
            R(err, ret) ==
                [Req("call_graph_creation_extension", -1, err, ret)
                    EXCEPT !.fn = name,
                           !.ev = (IF evals THEN <<"eval">> ELSE <<>>) \o
                                  (IF runs THEN <<"func">> ELSE <<>>) \o
                                  (IF stores THEN <<"__add_graph">> ELSE <<>>),
                           !.called =
                               IF runs
                               THEN <<Head(Defining(graph_creation_extensions,
                                                    name))>>
                               ELSE <<>>]
        IN
        /\ stores => CanAllocate
        /\ constructs => CanConstruct
        /\ graph_objs' =
              IF stores
              THEN AddGraph(ExtensionRegistry(does, graph_objs),
                            AddGraphId(next_graph_id),
                            ExtensionResult(does, mg, next_oid))
              ELSE IF runs THEN ExtensionRegistry(does, graph_objs)
              ELSE graph_objs
        /\ next_graph_id' = IF stores THEN AddGraphNext(next_graph_id)
                            ELSE next_graph_id
        /\ next_oid' = IF constructs THEN next_oid + 1 ELSE next_oid
        /\ last' = IF eval_raises THEN R("other", -1)
                   ELSE IF does \in {"absent", "raise"} THEN R("GaasError", -1)
                   ELSE R("none", AddGraphId(next_graph_id))
        /\ UnchangedCluster /\ UNCHANGED <<marshal, server>> /\ UnchangedHistory
        /\ UNCHANGED graph_creation_extensions

Next ==
    \/ create_graph
    \/ delete_graph
    \/ get_graph_ids
    \/ get_num_edges
    \/ get_num_vertices
    \/ get_graph_type
    \/ get_graph_info
    \/ load_csv_as_vertex_data
    \/ load_csv_as_edge_data
    \/ get_edge_IDs_for_vertices
    \/ batched_ego_graphs
    \/ node2vec
    \/ is_vertex_property
    \/ is_edge_property
    \/ get_graph_vertex_dataframe_rows
    \/ get_graph_edge_dataframe_rows
    \/ extract_subgraph
    \/ uniform_neighbor_sample
    \/ pagerank
    \/ uptime
    \/ get_server_info
    \/ initialize_dask_client
    \/ shutdown_dask_client
    \/ __del__
    \/ load_graph_creation_extensions
    \/ unload_graph_creation_extensions
    \/ call_graph_creation_extension

Spec == Init /\ [][Next]_vars

\* The state space of Spec is the product of the registry, the extensions,
\* the dask client and the request record of 27 operations.  The properties
\* are checked under the specifications below; each keeps every
\* operation that changes the part of the state its properties are about.

\* The registry under every operation that adds or removes an entry (create,
\* delete, extract, sample, extension calls, the lookup that creates the
\* default graph), with get_graph_ids and get_num_edges reading it.  The
\* handler stays in single mode.
NextRegistry ==
    \/ create_graph
    \/ delete_graph
    \/ get_graph_ids
    \/ get_num_edges
    \/ extract_subgraph
    \/ uniform_neighbor_sample
    \/ load_graph_creation_extensions
    \/ call_graph_creation_extension

SpecRegistry == Init /\ [][NextRegistry]_vars

\* Every operation that takes a graph id, with create_graph, delete_graph
\* and get_graph_ids.  The handler stays in single mode, no extension is
\* loaded.
NextAccess ==
    \/ create_graph
    \/ delete_graph
    \/ get_graph_ids
    \/ get_num_edges
    \/ get_num_vertices
    \/ get_graph_type
    \/ get_graph_info
    \/ load_csv_as_vertex_data
    \/ load_csv_as_edge_data
    \/ get_edge_IDs_for_vertices
    \/ batched_ego_graphs
    \/ node2vec
    \/ is_vertex_property
    \/ is_edge_property
    \/ get_graph_vertex_dataframe_rows
    \/ get_graph_edge_dataframe_rows
    \/ extract_subgraph
    \/ uniform_neighbor_sample
    \/ pagerank

SpecAccess == Init /\ [][NextAccess]_vars

\* The dask client life cycle, with the operations that construct graphs of
\* the current mode (create_graph, and the lookups that create the default
\* graph).
NextCluster ==
    \/ initialize_dask_client
    \/ shutdown_dask_client
    \/ __del__
    \/ create_graph
    \/ delete_graph
    \/ get_num_edges
    \/ load_csv_as_edge_data

SpecCluster == Init /\ [][NextCluster]_vars

\* The graph creation extensions: loading, unloading and calling them, with
\* the operations that show what a call stored.  The handler stays in single
\* mode.
NextExtensions ==
    \/ load_graph_creation_extensions
    \/ unload_graph_creation_extensions
    \/ call_graph_creation_extension
    \/ delete_graph
    \/ get_graph_ids
    \/ get_num_edges

SpecExtensions == Init /\ [][NextExtensions]_vars

\* The operations whose outcome depends on the class of the graph, in either
\* mode: graphs are made in single and in distributed mode and extracted,
\* and the algorithms and property tests are run on them.
NextModeAccess ==
    \/ initialize_dask_client
    \/ shutdown_dask_client
    \/ create_graph
    \/ extract_subgraph
    \/ get_edge_IDs_for_vertices
    \/ batched_ego_graphs
    \/ node2vec
    \/ is_vertex_property
    \/ is_edge_property

SpecModeAccess == Init /\ [][NextModeAccess]_vars

\* The coordinator next to the registry and the extension modules: graphs
\* are created and deleted and extension directories loaded in both modes.
NextModeFrame ==
    \/ initialize_dask_client
    \/ shutdown_dask_client
    \/ create_graph
    \/ delete_graph
    \/ load_graph_creation_extensions

SpecModeFrame == Init /\ [][NextModeFrame]_vars

\* ------------------------------------------------------------ properties
\* The operations that look the graph up with _get_graph(graph_id).
GraphAccessOps ==
    {"get_num_edges", "get_num_vertices", "get_graph_type", "get_graph_info",
     "load_csv_as_vertex_data", "load_csv_as_edge_data",
     "get_edge_IDs_for_vertices", "batched_ego_graphs", "node2vec",
     "is_vertex_property", "is_edge_property",
     "get_graph_vertex_dataframe_rows", "get_graph_edge_dataframe_rows",
     "extract_subgraph", "uniform_neighbor_sample"}

\* The operations that store their result under a new id.
AllocatingOps ==
    {"create_graph", "extract_subgraph", "uniform_neighbor_sample",
     "call_graph_creation_extension"}

\* The request l reached _get_graph (get_graph_info raises on invalid keys
\* before it; for the default id nothing else makes it raise GaasError).
LookedUp(l) ==
    /\ l.op \in GraphAccessOps
    /\ ~(l.op = "get_graph_info" /\ l.err = "GaasError")

\* get_graph_ids(), as a set
GraphIds == SeqToSet(DictKeys(graph_objs))

\* How often id occurs in get_graph_ids()
Occurrences(objs, id) == Cardinality({i \in 1..Len(objs) : objs[i].k = id})

\* C1: the ids create_graph returned are, in call order, strictly increasing
\* (hence pairwise distinct), whatever operations ran in between.
C1_CreateIdsIncrease ==
    \A i, j \in 1..Len(create_rets) : i < j => create_rets[i] < create_rets[j]

\* C1 witness: create_graph returned twice, with a delete_graph in between
\* of the id the first one returned.
C1_Witness ==
    /\ Len(create_rets) >= 2
    /\ create_rets[1] \in deleted
    /\ last.op = "create_graph"

\* C2 as claimed: after a successful delete_graph(id), an immediately
\* following get_num_edges(id) fails with GaasError, for every id.
C2_Original ==
    [][(/\ last.op = "delete_graph" /\ last.err = "none"
        /\ last'.op = "get_num_edges" /\ last'.gid = last.gid)
       => last'.err = "GaasError"]_vars

\* C2 amended: after a successful delete_graph(id) of a non-default id, an
\* immediately following get_num_edges(id) fails with GaasError.
C2_DeleteThenNumEdgesFails ==
    [][(/\ last.op = "delete_graph" /\ last.err = "none"
        /\ last.gid # DefaultGraphId
        /\ last'.op = "get_num_edges" /\ last'.gid = last.gid)
       => (last'.err = "GaasError" /\ graph_objs' = graph_objs)]_vars

\* C2 witness: get_num_edges failed on a non-default id that delete_graph
\* had removed.
C2_Witness ==
    /\ last.op = "get_num_edges" /\ last.err = "GaasError"
    /\ last.gid # DefaultGraphId
    /\ last.gid \in deleted

\* C3 as claimed: an operation that looks up the default graph leaves
\* get_graph_ids with the default id once and with no other new id, and
\* uses the default graph that was there.
C3_Original ==
    [][(LookedUp(last') /\ last'.gid = DefaultGraphId)
       => /\ Occurrences(graph_objs', DefaultGraphId) = 1
          /\ SeqToSet(DictKeys(graph_objs')) = GraphIds \cup {DefaultGraphId}
          /\ DictHas(graph_objs, DefaultGraphId) =>
                DictGet(graph_objs', DefaultGraphId, NoneObj).oid =
                DictGet(graph_objs, DefaultGraphId, NoneObj).oid]_vars

\* C3 amended: an operation that looks up the default graph creates it, as
\* an empty graph of a new identity, exactly when the registry has none, and
\* otherwise uses the one stored; it constructs no other graph and adds no
\* other id, except that a successful extract_subgraph or
\* uniform_neighbor_sample stores its result under the next id.
C3_DefaultCreatedOnce ==
    [][(LookedUp(last') /\ last'.gid = DefaultGraphId)
       => LET had == DictHas(graph_objs, DefaultGraphId)
              old == DictGet(graph_objs, DefaultGraphId, NoneObj)
              new == DictGet(graph_objs', DefaultGraphId, NoneObj)
              allocates == /\ last'.op \in {"extract_subgraph",
                                            "uniform_neighbor_sample"}
                           /\ last'.err = "none"
              loads == /\ last'.op \in {"load_csv_as_vertex_data",
                                        "load_csv_as_edge_data"}
                       /\ last'.err = "none"
          IN /\ Occurrences(graph_objs', DefaultGraphId) = 1
             /\ SeqToSet(DictKeys(graph_objs')) =
                   GraphIds \cup {DefaultGraphId}
                            \cup (IF allocates THEN {last'.ret} ELSE {})
             /\ allocates => last'.ret = next_graph_id
             /\ had => new.oid = old.oid
             /\ ~had => /\ new.oid = next_oid
                        /\ new.kind \in {"PG", "MGPG"}
                        /\ new.src = 0
                        /\ new.loaded = loads
             /\ next_oid' = next_oid + (IF had THEN 0 ELSE 1)
                                     + (IF allocates THEN 1 ELSE 0)]_vars

\* C3 witness: the default graph was created by a load and a later
\* get_num_edges used it: one graph object was ever constructed.
C3_Witness ==
    /\ last.op = "get_num_edges" /\ last.gid = DefaultGraphId
    /\ last.err = "none" /\ last.ret = 1
    /\ DictGet(graph_objs, DefaultGraphId, NoneObj).oid = 1
    /\ next_oid = 2
    /\ deleted = {}

\* C4 as claimed: an id that delete_graph removed identifies no graph again.
C4_Original == \A gid \in deleted : ~DictHas(graph_objs, gid)

\* C4 amended: a non-default id that delete_graph removed identifies no
\* graph again (the default id is created again by the next access), and the
\* counter stays above it.
C4_NonDefaultIdsNotReused ==
    \A gid \in deleted \ {DefaultGraphId} :
        ~DictHas(graph_objs, gid) /\ gid < next_graph_id

\* C4 witness: an id was deleted and a later allocation was stored.
C4_Witness ==
    \E gid \in deleted \ {DefaultGraphId} :
        \E k \in GraphIds : k > gid /\ last.op \in AllocatingOps

\* C5 as claimed: delete_graph(id) of an id that get_graph_ids lists raises
\* no error and removes exactly that id.
C5_DeleteListedSucceeds ==
    [][(last'.op = "delete_graph" /\ DictHas(graph_objs, last'.gid))
       => /\ last'.err = "none"
          /\ SeqToSet(DictKeys(graph_objs')) = GraphIds \ {last'.gid}]_vars

\* C6: delete_graph of an id that is not in the registry fails with
\* GaasError, creates no graph and leaves registry and counter unchanged.
C6_DeleteUnknownFails ==
    [][(last'.op = "delete_graph" /\ ~DictHas(graph_objs, last'.gid))
       => /\ last'.err = "GaasError"
          /\ graph_objs' = graph_objs
          /\ next_graph_id' = next_graph_id
          /\ next_oid' = next_oid]_vars

\* C6 witness: delete_graph failed on the default id after the default graph
\* had been deleted, and the default graph is still absent.
C6_Witness ==
    /\ last.op = "delete_graph" /\ last.err = "GaasError"
    /\ last.gid = DefaultGraphId
    /\ DefaultGraphId \in deleted
    /\ ~DictHas(graph_objs, DefaultGraphId)

\* C7: delete_graph(id) leaves every other id registered with the same graph
\* object, in the same order, and leaves the counter unchanged.
C7_DeleteRemovesOnlyThatId ==
    [][last'.op = "delete_graph"
       => /\ \A k \in GraphIds \ {last'.gid} :
                /\ DictHas(graph_objs', k)
                /\ DictGet(graph_objs', k, NoneObj) =
                   DictGet(graph_objs, k, NoneObj)
          /\ SeqToSet(DictKeys(graph_objs')) \subseteq GraphIds
          /\ next_graph_id' = next_graph_id]_vars

\* C7 witness: a graph was deleted and a graph extracted from it is still
\* registered.
C7_Witness ==
    /\ last.op = "delete_graph" /\ last.err = "none"
    /\ \E i \in 1..Len(graph_objs) :
          /\ graph_objs[i].v.src # 0
          /\ \A j \in 1..Len(graph_objs) :
                graph_objs[j].v.oid # graph_objs[i].v.src

\* The operations C8 names.
C8_Ops ==
    {"load_csv_as_vertex_data", "load_csv_as_edge_data", "get_num_edges",
     "get_num_vertices", "extract_subgraph", "node2vec", "batched_ego_graphs",
     "get_graph_vertex_dataframe_rows", "get_graph_edge_dataframe_rows",
     "is_vertex_property", "is_edge_property"}

\* C8: each of these operations, called with a non-default id that is not in
\* the registry, fails with GaasError, creates no graph and leaves registry
\* and counter unchanged.
C8_UnknownIdFails ==
    [][(/\ last'.op \in C8_Ops
        /\ last'.gid # DefaultGraphId
        /\ ~DictHas(graph_objs, last'.gid))
       => /\ last'.err = "GaasError"
          /\ graph_objs' = graph_objs
          /\ next_graph_id' = next_graph_id
          /\ next_oid' = next_oid]_vars

\* C8 witness: extract_subgraph failed on a non-default id that is not in
\* the registry, while other graphs are.
C8_Witness ==
    /\ last.op = "extract_subgraph" /\ last.err = "GaasError"
    /\ last.gid # DefaultGraphId
    /\ ~DictHas(graph_objs, last.gid)
    /\ graph_objs # <<>>

\* C9: the graph create_graph stores, and the default graph a lookup
\* creates, is an empty MGPropertyGraph if a dask client is set when the
\* operation runs, and an empty PropertyGraph otherwise.
C9_CreatedKindFollowsMode ==
    [][LET kind == IF dask_client # NoClient THEN "MGPG" ELSE "PG"
           lazy == /\ LookedUp(last') /\ last'.gid = DefaultGraphId
                   /\ ~DictHas(graph_objs, DefaultGraphId)
       IN /\ last'.op = "create_graph" =>
                DictGet(graph_objs', last'.ret, NoneObj) =
                    GraphObj(kind, next_oid, 0, FALSE)
          /\ lazy =>
                DictGet(graph_objs', DefaultGraphId, NoneObj) =
                    GraphObj(kind, next_oid, 0,
                             /\ last'.op \in {"load_csv_as_vertex_data",
                                               "load_csv_as_edge_data"}
                             /\ last'.err = "none")]_vars

\* C9 witness: create_graph ran in distributed mode and stored an
\* MGPropertyGraph, next to a PropertyGraph made in single mode.
C9_Witness ==
    /\ last.op = "create_graph" /\ last.mg
    /\ DictGet(graph_objs, last.ret, NoneObj).kind = "MGPG"
    /\ \E i \in 1..Len(graph_objs) : graph_objs[i].v.kind = "PG"

\* The state of the coordinator: client, cluster, Comms, open clients.
CoordState == <<dask_client, dask_cluster, comms_initialized, open_clients>>

\* The coordinator as constructed: no client, no cluster, Comms not set up.
CoordUninitialized == <<NoClient, NoCluster, FALSE, {}>>

\* C10: a successful initialize from the uninitialized state always leads to
\* the same distributed state (one open client, held by the handler, Comms
\* set up), and a shutdown from that state leads back to the uninitialized
\* state with no client or cluster held; so every cycle is like the first.
C10_InitShutdownCycle ==
    [][/\ (/\ CoordState = CoordUninitialized
           /\ last'.op = "initialize_dask_client" /\ last'.err = "none")
          => (/\ dask_client' # NoClient
              /\ CoordState' = <<dask_client', NoCluster, TRUE, {dask_client'}>>)
       /\ (/\ dask_client # NoClient
           /\ CoordState = <<dask_client, NoCluster, TRUE, {dask_client}>>
           /\ last'.op = "shutdown_dask_client")
          => CoordState' = CoordUninitialized
       /\ last'.op = "shutdown_dask_client"
          => (/\ dask_client' = NoClient /\ dask_cluster' = NoCluster
              /\ ~comms_initialized')]_vars

\* C10 witness: the handler is in distributed mode for the second time: the
\* registry holds a graph made in distributed mode and a younger one made in
\* single mode, and the last request was a successful initialize.
C10_Witness ==
    /\ last.op = "initialize_dask_client" /\ last.err = "none"
    /\ CoordState = <<dask_client, NoCluster, TRUE, {dask_client}>>
    /\ \E i, j \in 1..Len(graph_objs) :
          /\ graph_objs[i].v.kind = "MGPG"
          /\ graph_objs[j].v.kind = "PG"
          /\ graph_objs[i].v.oid < graph_objs[j].v.oid

\* ---------------------------------------------------------------------------
\* Dataframe rows: the column and row selection of
\* get_graph_vertex_dataframe_rows and get_graph_edge_dataframe_rows, followed
\* cell by cell on one property table.

\* PropertyGraph's bookkeeping column names, in the order of the list in
\* __remove_internal_columns.
InternalColumnNames_NoWeight ==
    <<"_VERTEX_", "_SRC_", "_DST_", "_TYPE_", "_EDGE_ID_", "_VERTEX_ID_">>

InternalColumnNames ==
    <<"_VERTEX_", "_SRC_", "_DST_", "_TYPE_", "_EDGE_ID_", "_VERTEX_ID_",
      "_WEIGHT_">>

\* list.remove(x): drops the first occurrence of x.
ListRemove(seq, x) ==
    LET i == CHOOSE k \in 1..Len(seq) :
                 seq[k] = x /\ \A m \in 1..(k - 1) : seq[m] # x
    IN SubSeq(seq, 1, i - 1) \o SubSeq(seq, i + 1, Len(seq))

RECURSIVE RemoveEach(_, _)
RemoveEach(names, internals) ==
    IF internals = <<>> THEN names
    ELSE RemoveEach(IF Head(internals) \in SeqToSet(names)
                       THEN ListRemove(names, Head(internals))
                       ELSE names,
                    Tail(internals))

__remove_internal_columns(pg_column_names) ==
    RemoveEach(pg_column_names, InternalColumnNames)

\* A missing cell of a property table.
NA == 0

\* Every column name a table of the model can have; a cell's value tells its
\* row and its column apart from every other cell's. With holes, every other
\* cell of the user columns is missing.
AllColumnNames ==
    <<"p", "q", "_VERTEX_", "_SRC_", "_DST_", "_TYPE_", "_EDGE_ID_",
      "_VERTEX_ID_", "_WEIGHT_">>
ColCode(name) == CHOOSE i \in 1..Len(AllColumnNames) : AllColumnNames[i] = name
Cell(r, name, holes) ==
    IF holes /\ name \in {"p", "q"} /\ (r + ColCode(name)) % 2 = 0
    THEN NA
    ELSE 10 * r + ColCode(name)

\* The column lists of a vertex table, of an edge table, and of a vertex table
\* without user properties.
ColumnLists ==
    { <<"_VERTEX_", "_TYPE_", "p", "q">>,
      <<"_SRC_", "_DST_", "q", "_EDGE_ID_", "_TYPE_", "p", "_WEIGHT_">>,
      <<"_VERTEX_", "_TYPE_">> }

\* A stored table: its columns, its rows in storage order (a row is a function
\* from column name to cell), and whether it is a dask_cudf table.
Table(cols, nrows, holes, dask) ==
    [cols |-> cols,
     rows |-> [r \in 1..nrows |-> [c \in SeqToSet(cols) |-> Cell(r, c, holes)]],
     dask |-> dask]

Tables ==
    {Table(cols, nrows, holes, dask) :
        cols \in ColumnLists, nrows \in 0..MaxRows,
        holes \in BOOLEAN, dask \in BOOLEAN}

\* The property-key filters of a request.
KeyFilters ==
    { <<>>, <<"q", "p">>, <<"p">>, <<"zz">>, <<"p", "zz">>, <<"_TYPE_", "p">> }

\* The row selectors of a request (DataframeRowIndex): one integer, held as
\* the only element of v, or a list of integers.
IndexValues == (-2)..MaxRows
IndexLists == UNION {[1..len -> IndexValues] : len \in 0..MaxIndices}
RowSelectors ==
    {[kind |-> "int", v |-> <<i>>] : i \in IndexValues}
        \cup {[kind |-> "list", v |-> L] : L \in IndexLists}

\* The null-replacement values of a request.
NullValues == {97, 98}

\* __get_dataframe_from_user_props: the columns dataframe[all_user_columns]
\* selects, or the keys that are not columns of the dataframe.
__get_dataframe_from_user_props(dataframe, columns) ==
    LET all_user_columns ==
            IF Len(columns) = 0
            THEN __remove_internal_columns(dataframe.cols)
            ELSE columns
    IN [cols    |-> all_user_columns,
        missing |-> SeqToSet(all_user_columns) \ SeqToSet(dataframe.cols)]

\* dataframe.iloc[[...]] with the rows in sorted order and without repeats.
IlocList_Sorted(nrows, L) ==
    LET picked == {IF L[k] < 0 THEN nrows + L[k] + 1 ELSE L[k] + 1 :
                       k \in 1..Len(L)}
    IN SelectSeq([r \in 1..nrows |-> r], LAMBDA r : r \in picked)

\* dataframe.iloc[[...]] on a table of nrows rows: the row numbers (from 1)
\* taken, in the order of the list; a negative position counts from the end.
IlocList(nrows, L) ==
    [k \in 1..Len(L) |-> IF L[k] < 0 THEN nrows + L[k] + 1 ELSE L[k] + 1]

\* dataframe.iloc[i]: the row numbers taken, or <<0>> for a position outside
\* the table (IndexError).
Iloc(nrows, i) ==
    IF i.kind = "int"
    THEN IF i.v[1] < nrows THEN <<i.v[1] + 1>> ELSE <<0>>
    ELSE IF \A k \in 1..Len(i.v) : i.v[k] < nrows /\ i.v[k] >= -nrows
         THEN IlocList(nrows, i.v)
         ELSE <<0>>

\* rows_df.to_numpy(na_value=n): a copy of the rows, columns in the order
\* selected, with each missing cell replaced by n.
ToNumpy(dataframe, cols, taken, n) ==
    [k \in 1..Len(taken) |->
        [c \in 1..Len(cols) |->
            LET v == dataframe.rows[taken[k]][cols[c]]
            IN IF v = NA THEN n ELSE v]]

\* __get_dataframe_rows_as_numpy_bytes on the selected columns: the error
\* raised and the rows serialized. engine_ok is whether dask_cudf serves the
\* request for a whole table.
__get_dataframe_rows_as_numpy_bytes(dataframe, cols, i, n, engine_ok) ==
    LET nrows == Len(dataframe.rows)
        Fail  == [err |-> "GaasError", out |-> <<>>]
        Rows(taken) == [err |-> "none",
                        out |-> ToNumpy(dataframe, cols, taken, n)]
    IN IF i.kind = "int" /\ i.v[1] < -1 THEN Fail
       ELSE IF i.kind = "int" /\ i.v[1] = -1
            THEN IF dataframe.dask /\ ~engine_ok THEN Fail
                 ELSE Rows([r \in 1..nrows |-> r])
       ELSE IF dataframe.dask THEN Fail
       ELSE IF Iloc(nrows, i) = <<0>> THEN Fail
       ELSE Rows(Iloc(nrows, i))

\* rows_df.to_numpy(na_value=n) filling the missing cells of the stored table
\* itself.
TableAfterToNumpy_InPlace(dataframe, n) ==
    [dataframe EXCEPT !.rows =
        [r \in 1..Len(dataframe.rows) |->
            [c \in DOMAIN dataframe.rows[r] |->
                IF dataframe.rows[r][c] = NA THEN n ELSE dataframe.rows[r][c]]]]

\* The stored table after rows_df.to_numpy(na_value=n): to_numpy returns a
\* copy, the table keeps its cells.
TableAfterToNumpy(dataframe, n) == dataframe

\* No request has been served yet on the table. first holds the result of the
\* first request once a second one has been served.
Stored(df) ==
    [df |-> df, served |-> FALSE, keys |-> <<>>,
     sel |-> [kind |-> "int", v |-> <<-1>>], n |-> 0,
     err |-> "none", key |-> "", cols |-> <<>>, out |-> <<>>,
     first |-> <<>>]

\* The handler with one property table stored in a graph.
InitRows ==
    /\ InitHandler
    /\ marshal \in {Stored(df) : df \in Tables}
    /\ server = InitServer

\* The body of get_graph_vertex_dataframe_rows / get_graph_edge_dataframe_rows
\* on the stored table: select the columns, then the rows. A KeyError names
\* one of the keys that are not columns.
DataframeRowsRequest(keys, i, n, engine_ok, first) ==
    LET df  == __get_dataframe_from_user_props(marshal.df, keys)
        res == __get_dataframe_rows_as_numpy_bytes(
                   marshal.df, df.cols, i,
                   n, engine_ok)
        req == [served |-> TRUE,
                keys |-> keys, sel |-> i,
                n |-> n, first |-> first]
    IN /\ IF df.missing # {}
          THEN \E ke \in df.missing :
                  marshal' = req @@ [df |-> marshal.df,
                                     err |-> "GaasError", key |-> ke,
                                     cols |-> <<>>, out |-> <<>>]
          ELSE marshal' = req @@ [df |-> IF res.err = "none"
                                         THEN TableAfterToNumpy(
                                                  marshal.df,
                                                  n)
                                         ELSE marshal.df,
                                  err |-> res.err, key |-> "",
                                  cols |-> df.cols, out |-> res.out]
       /\ UNCHANGED <<next_graph_id, graph_objs, graph_creation_extensions,
                      dask_client, dask_cluster, comms_initialized,
                      open_clients, next_oid, last, create_rets, deleted,
                      load_order, server>>

\* The first request on the table.
get_graph_dataframe_rows ==
    /\ marshal # NoMarshal
    /\ ~marshal.served
    /\ \E property_keys \in KeyFilters, index_or_indices \in RowSelectors,
          null_replacement_value \in NullValues, engine_ok \in BOOLEAN :
          DataframeRowsRequest(property_keys, index_or_indices,
                               null_replacement_value, engine_ok, <<>>)

\* A later request on the same table for the same columns and rows, with any
\* null-replacement value.
get_graph_dataframe_rows_again ==
    /\ marshal # NoMarshal
    /\ marshal.served
    /\ marshal.first = <<>>
    /\ \E null_replacement_value \in NullValues, engine_ok \in BOOLEAN :
          DataframeRowsRequest(marshal.keys, marshal.sel,
                               null_replacement_value, engine_ok,
                               <<[n |-> marshal.n, err |-> marshal.err,
                                  out |-> marshal.out]>>)

NextRows == get_graph_dataframe_rows \/ get_graph_dataframe_rows_again


SpecRows == InitRows /\ [][NextRows]_vars


\* ---------------------------------------------------------------------------
\* The thrift server: clients connect with create_client and send calls; the
\* server hands a call to the handler, whose registry functions are followed
\* statement by statement.

\* What make_client does: it connects, raises TTransportException, or raises
\* something else.
ConnectOutcomes == {"connected", "TTransportException", "other"}

\* A create_client that lets TTransportException through.
CreateClientError_Passes(outcome) ==
    IF outcome = "connected" THEN "none" ELSE "other"

\* create_client: except TTransportException: raise spec.GaasError(...);
\* any other exception leaves create_client as it is.
CreateClientError(outcome) ==
    CASE outcome = "connected" -> "none"
      [] outcome = "TTransportException" -> "GaasError"
      [] OTHER -> "other"

\* The calls followed statement by statement.
ServerOps ==
    {"create_graph", "call_graph_creation_extension", "get_num_edges",
     "delete_graph"}

\* The first statement of the handler for a call.
FirstPc(op) ==
    CASE op = "create_graph" -> "create"
      [] op = "call_graph_creation_extension" -> "func"
      [] op = "get_num_edges" -> "get"
      [] op = "delete_graph" -> "pop"

\* The connections whose call the server has taken and not yet answered.
Busy == {c \in Conns : server.conn[c].pc \notin {"closed", "idle", "sent"}}

\* A server with one thread per connection (TThreadedServer): it takes a call
\* whatever else is running.
CanDispatch_Threaded(busy) == TRUE

\* TSimpleServer.serve: one thread reads a call, runs the handler and writes
\* the reply before it reads the next call.
CanDispatch(busy) == busy = {}

\* The model lets the server take a call only while the identities and ids
\* the calls in progress can use are left.
CanServe(op) ==
    /\ next_oid + Cardinality(Busy) <= MaxObjs
    /\ op \in {"create_graph", "call_graph_creation_extension"}
          => next_graph_id
               + Cardinality({c \in Busy : server.conn[c].op
                                  \in {"create_graph",
                                       "call_graph_creation_extension"}})
               <= MaxGraphId

\* A server that stops the handler when the client has stopped waiting.
Cancelled_OnTimeout(waiting) == ~waiting

\* The handler runs on whether the client still waits or not: neither
\* TSimpleServer nor the handler looks at the client while a call runs.
Cancelled(waiting) == FALSE

\* The call of connection c is at statement pc of the handler.
At(c, pc) ==
    /\ server.conn[c].pc = pc
    /\ ~Cancelled(server.conn[c].waiting)

\* A lock that is never held.
LockFree_Always(lock) == TRUE

\* The registry-wide lock can be taken.
LockFree(lock) == lock = 0

\* The reply: the call of connection c, made with graph_id gid, ends with
\* err and ret. The lock, if the call holds it, is released.
Reply(c, gid, err, ret, made) ==
    /\ server' = [server EXCEPT
                     !.conn[c] = NoCall("idle"),
                     !.lock = IF server.lock = c THEN 0 ELSE server.lock,
                     !.made = made]
    /\ last' = Req(server.conn[c].op, gid, err, ret)

\* The call of connection c moves to statement pc, with G and loc.
Goto(c, pc, G, loc) ==
    /\ server' = [server EXCEPT
                     !.conn[c].pc = pc, !.conn[c].G = G, !.conn[c].loc = loc]
    /\ UNCHANGED last

UnchangedHandlerFields ==
    UNCHANGED <<graph_creation_extensions, dask_client, dask_cluster,
                comms_initialized, open_clients, load_order, marshal>>

\* create_client(host, port)
create_client ==
    \E c \in Conns, outcome \in ConnectOutcomes :
        /\ server.conn[c].pc = "closed"
        /\ server' = [server EXCEPT
                         !.conn[c].pc = IF outcome = "connected"
                                        THEN "idle" ELSE "closed"]
        /\ last' = [Req("create_client", -1, CreateClientError(outcome), -1)
                       EXCEPT !.ev = <<outcome>>]
        /\ UnchangedHandlerFields
        /\ UNCHANGED <<next_graph_id, graph_objs, next_oid, create_rets,
                       deleted>>

\* A connected client sends a call and waits for the reply.
send_call ==
    \E c \in Conns :
        /\ server.conn[c].pc = "idle"
        /\ server' = [server EXCEPT !.conn[c] = Conn("sent", "", 0, -1, TRUE)]
        /\ UnchangedHandlerFields
        /\ UNCHANGED <<next_graph_id, graph_objs, next_oid, create_rets,
                       deleted, last>>

\* The call timeout of the client expires: the client stops waiting.
call_timeout ==
    \E c \in Conns :
        /\ server.conn[c].pc \notin {"closed", "idle"}
        /\ server.conn[c].waiting
        /\ server' = [server EXCEPT !.conn[c].waiting = FALSE]
        /\ UnchangedHandlerFields
        /\ UNCHANGED <<next_graph_id, graph_objs, next_oid, create_rets,
                       deleted, last>>

\* TSimpleServer: the server thread reads the next call and enters the
\* handler.
dispatch ==
    \E c \in Conns, op \in ServerOps :
        /\ server.conn[c].pc = "sent"
        /\ CanDispatch(Busy)
        /\ CanServe(op)
        /\ server' = [server EXCEPT !.conn[c].pc = FirstPc(op),
                                    !.conn[c].op = op]
        /\ UnchangedHandlerFields
        /\ UNCHANGED <<next_graph_id, graph_objs, next_oid, create_rets,
                       deleted, last>>

\* A worker of a pool reads the call; the handler operation first has to
\* take the registry-wide lock.
dispatch_pool ==
    \E c \in Conns, op \in ServerOps :
        /\ server.conn[c].pc = "sent"
        /\ CanServe(op)
        /\ server' = [server EXCEPT !.conn[c].pc = "lock",
                                    !.conn[c].op = op]
        /\ UnchangedHandlerFields
        /\ UNCHANGED <<next_graph_id, graph_objs, next_oid, create_rets,
                       deleted, last>>

\* The worker takes the lock and enters the handler.
acquire ==
    \E c \in Conns :
        /\ server.conn[c].pc = "lock"
        /\ LockFree(server.lock)
        /\ server' = [server EXCEPT
                         !.lock = c,
                         !.conn[c].pc = FirstPc(server.conn[c].op)]
        /\ UnchangedHandlerFields
        /\ UNCHANGED <<next_graph_id, graph_objs, next_oid, create_rets,
                       deleted, last>>

\* create_graph: pG = self.__create_graph()
create_graph_new ==
    \E c \in Conns :
        /\ At(c, "create")
        /\ next_oid' = next_oid + 1
        /\ Goto(c, "add_read", next_oid, -1)
        /\ UnchangedHandlerFields
        /\ UNCHANGED <<next_graph_id, graph_objs, create_rets, deleted>>

\* call_graph_creation_extension: graph_obj = func(...) returns a graph, or
\* raises and the call ends with GaasError.
extension_func ==
    \E c \in Conns, raises \in BOOLEAN :
        /\ At(c, "func")
        /\ IF raises
           THEN /\ Reply(c, -1, "GaasError", -1, server.made)
                /\ UNCHANGED next_oid
           ELSE /\ next_oid' = next_oid + 1
                /\ Goto(c, "add_read", next_oid, -1)
        /\ UnchangedHandlerFields
        /\ UNCHANGED <<next_graph_id, graph_objs, create_rets, deleted>>

\* __add_graph: gid = self.__next_graph_id
add_graph_read ==
    \E c \in Conns :
        /\ At(c, "add_read")
        /\ Goto(c, "add_store", server.conn[c].G, AddGraphId(next_graph_id))
        /\ UnchangedHandlerFields
        /\ UNCHANGED <<next_graph_id, graph_objs, next_oid, create_rets,
                       deleted>>

\* __add_graph: self.__graph_objs[gid] = G
add_graph_store ==
    \E c \in Conns :
        /\ At(c, "add_store")
        /\ graph_objs' = AddGraph(graph_objs, server.conn[c].loc,
                                  GraphObj(CreateKind(mg), server.conn[c].G,
                                           0, FALSE))
        /\ Goto(c, "add_incr", 0, server.conn[c].loc)
        /\ UnchangedHandlerFields
        /\ UNCHANGED <<next_graph_id, next_oid, create_rets, deleted>>

\* __add_graph: self.__next_graph_id += 1; return gid
add_graph_incr ==
    \E c \in Conns :
        /\ At(c, "add_incr")
        /\ next_graph_id' = AddGraphNext(next_graph_id)
        /\ create_rets' = Append(create_rets, server.conn[c].loc)
        /\ Reply(c, -1, "none", server.conn[c].loc, server.made)
        /\ UnchangedHandlerFields
        /\ UNCHANGED <<graph_objs, next_oid, deleted>>

\* get_num_edges(graph_id), _get_graph: pG = self.__graph_objs.get(graph_id);
\* if pG is None: the default graph is to be created, or GaasError is raised;
\* otherwise get_num_edges returns the count of the graph found.
get_graph_test ==
    \E c \in Conns, gid \in GraphIdArgs :
        /\ At(c, "get")
        /\ IF GetCreates(graph_objs, gid)
           THEN Goto(c, "get_store", 0, -1)
           ELSE IF GetRaises(graph_objs, gid)
                THEN Reply(c, gid, "GaasError", -1, server.made)
                ELSE Reply(c, gid, "none",
                           NumOf(DictGet(graph_objs, gid, NoneObj)),
                           server.made)
        /\ UnchangedHandlerFields
        /\ UNCHANGED <<next_graph_id, graph_objs, next_oid, create_rets,
                       deleted>>

\* _get_graph, for the default id: pG = self.__create_graph();
\* self.__graph_objs[graph_id] = pG; get_num_edges then returns the count of
\* the new graph.
get_graph_store ==
    \E c \in Conns :
        /\ At(c, "get_store")
        /\ graph_objs' = DictSet(graph_objs, DefaultGraphId, CreateGraphObj)
        /\ next_oid' = next_oid + 1
        /\ Reply(c, DefaultGraphId, "none", NumOf(CreateGraphObj),
                 server.made + 1)
        /\ UnchangedHandlerFields
        /\ UNCHANGED <<next_graph_id, create_rets, deleted>>

\* delete_graph(graph_id): self.__graph_objs.pop(graph_id, None) is None
\* raises.
delete_graph_pop ==
    \E c \in Conns, gid \in GraphIdArgs :
        /\ At(c, "pop")
        /\ graph_objs' = DeleteObjs(graph_objs, gid)
        /\ deleted' = IF DictHas(graph_objs, gid) /\ ~DictHas(graph_objs', gid)
                      THEN deleted \cup {gid} ELSE deleted
        /\ Reply(c, gid,
                 IF DeleteRaises(graph_objs, gid) THEN "GaasError" ELSE "none",
                 -1,
                 IF gid = DefaultGraphId /\ ~DictHas(graph_objs', gid)
                 THEN 0 ELSE server.made)
        /\ UnchangedHandlerFields
        /\ UNCHANGED <<next_graph_id, next_oid, create_rets>>

\* The statements of the handler.
HandlerStep ==
    \/ create_graph_new
    \/ extension_func
    \/ add_graph_read
    \/ add_graph_store
    \/ add_graph_incr
    \/ get_graph_test
    \/ get_graph_store
    \/ delete_graph_pop

\* The server as create_server builds it, with its clients.
NextServer ==
    \/ create_client
    \/ send_call
    \/ dispatch
    \/ HandlerStep

SpecServer == Init /\ [][NextServer]_vars

\* The same, with clients whose call timeout expires.
NextTimeout ==
    \/ create_client
    \/ send_call
    \/ call_timeout
    \/ dispatch
    \/ HandlerStep

\* The server with a worker pool and the handler operations under one lock.
NextPool ==
    \/ create_client
    \/ send_call
    \/ dispatch_pool
    \/ acquire
    \/ HandlerStep

SpecPool == Init /\ [][NextPool]_vars

\* The server of create_server, the handler thread running as long as it has
\* a statement to run.
SpecServerLive == Init /\ [][NextTimeout]_vars /\ WF_vars(HandlerStep)


\* The requests that run the body of shutdown_dask_client.
ShutdownOps == {"shutdown_dask_client", "__del__"}

\* How often the call x occurs in the calls ev.
CountOf(ev, x) == Cardinality({i \in 1..Len(ev) : ev[i] = x})

\* The position of the call x in the calls ev (0: not called).
PosOf(ev, x) ==
    IF CountOf(ev, x) = 0 THEN 0 ELSE CHOOSE i \in 1..Len(ev) : ev[i] = x

\* C11: a shutdown in distributed mode destroys Comms, then closes the
\* client, then closes the cluster (only if one is held), and forgets the
\* client after all of these; at no point of the teardown is the client
\* forgotten (the mode uninitialized) while that client is still open.
C11_TeardownOrder ==
    [][(last'.op \in ShutdownOps /\ dask_client # NoClient)
       => LET st == Coord(dask_client, dask_cluster, comms_initialized,
                          open_clients)
              ev == last'.ev
          IN /\ CountOf(ev, "Comms.destroy") = 1
             /\ CountOf(ev, "client.close") = 1
             /\ CountOf(ev, "client=None") = 1
             /\ CountOf(ev, "cluster.close") =
                   (IF dask_cluster # NoCluster THEN 1 ELSE 0)
             /\ PosOf(ev, "Comms.destroy") < PosOf(ev, "client.close")
             /\ PosOf(ev, "client.close") < PosOf(ev, "client=None")
             /\ CountOf(ev, "cluster.close") = 1 =>
                   /\ PosOf(ev, "client.close") < PosOf(ev, "cluster.close")
                   /\ PosOf(ev, "cluster.close") < PosOf(ev, "client=None")
             /\ PosOf(ev, "client=None") = Len(ev)
             /\ \A k \in 0..Len(ev) :
                   LET at == RunShutdown(st, SubSeq(ev, 1, k))
                   IN at.client = NoClient => dask_client \notin at.open
             /\ dask_client' = NoClient
             /\ dask_client \notin open_clients'
             /\ ~comms_initialized']_vars

\* C11 witness: a shutdown ran in distributed mode and tore the client down.
C11_Witness ==
    /\ last.op = "shutdown_dask_client" /\ last.mg
    /\ Len(last.ev) = 3
    /\ dask_client = NoClient /\ open_clients = {}

\* C12: a shutdown (by request or from the destructor) while no client is
\* held makes no teardown call, raises nothing and leaves the handler's state
\* unchanged.
C12_ShutdownUninitializedNoop ==
    [][(last'.op \in ShutdownOps /\ dask_client = NoClient)
       => /\ last'.ev = <<>>
          /\ last'.err = "none"
          /\ UNCHANGED <<next_graph_id, graph_objs, graph_creation_extensions,
                         dask_client, dask_cluster, comms_initialized,
                         open_clients, next_oid>>]_vars

\* C12 witness: the destructor's shutdown did nothing, the handler having
\* been in distributed mode (it made an MGPropertyGraph) and shut down before.
C12_Witness ==
    /\ last.op = "__del__" /\ ~last.mg /\ last.ev = <<>>
    /\ dask_client = NoClient
    /\ \E i \in 1..Len(graph_objs) : graph_objs[i].v.kind = "MGPG"

\* C13: initialize_dask_client calls Comms.initialize exactly when Comms is
\* not initialized at that point, so Comms is never initialized twice without
\* a destroy in between; after a successful initialize Comms is initialized.
C13_CommsNotReinitialized ==
    [][(last'.op = "initialize_dask_client" /\ last'.err = "none")
       => /\ CountOf(last'.ev, "Comms.initialize") =
                (IF comms_initialized THEN 0 ELSE 1)
          /\ comms_initialized']_vars

\* C13 witness: a successful initialize found Comms initialized (by an
\* earlier initialize with no shutdown since) and did not call
\* Comms.initialize.
C13_Witness ==
    /\ last.op = "initialize_dask_client" /\ last.err = "none"
    /\ last.mg
    /\ CountOf(last.ev, "Comms.initialize") = 0
    /\ comms_initialized

\* name begins with two underscores.
TwoUnderscores(name) == Len(name) >= 2 /\ SubSeq(name, 1, 2) = <<"_", "_">>

\* The loaded modules that have an attribute of that name.
Exposing(name) ==
    {m \in SeqToSet(DictValues(graph_creation_extensions)) :
        GetAttr(m, name) # "absent"}

\* The request l was a call_graph_creation_extension.
IsCall(l) == l.op = "call_graph_creation_extension"

\* The step changes neither the registry nor the counter nor constructs a
\* graph object.
RegistryUnchanged ==
    UNCHANGED <<graph_objs, next_graph_id, next_oid>>

\* C14: call_graph_creation_extension with a name that begins with two
\* underscores fails with GaasError, whatever is loaded; it evaluates no
\* argument text, calls no function and leaves the registry and the counter
\* unchanged.
C14_PrivateNameRejected ==
    [][(IsCall(last') /\ TwoUnderscores(last'.fn))
       => /\ last'.err = "GaasError"
          /\ last'.ev = <<>>
          /\ last'.called = <<>>
          /\ RegistryUnchanged]_vars

\* C14 witness: the call of a private name failed while a loaded module
\* defines that name.
C14_Witness ==
    /\ IsCall(last) /\ last.fn = Name_priv /\ last.err = "GaasError"
    /\ Exposing(Name_priv) # {}

\* No module.
NoModule == [stem |-> "", ver |-> 0]

\* The module names loaded since the last unload, in the order of their
\* first load, whose module now loaded defines name.
KeysDefining(name) ==
    SelectSeq(load_order,
              LAMBDA k : GetAttr(DictGet(graph_creation_extensions, k,
                                         NoModule), name) # "absent")

\* C15: a call_graph_creation_extension calls at most one function; when
\* loaded modules define the name (and the arguments evaluate) it calls
\* exactly one, that of the module now loaded under the first module name, in
\* the order of first loads since the last unload, whose module defines it.
C15_FirstLoadedWins ==
    [][IsCall(last')
       => /\ Len(last'.called) <= 1
          /\ CountOf(last'.ev, "func") = Len(last'.called)
          /\ last'.called # <<>> =>
                /\ KeysDefining(last'.fn) # <<>>
                /\ last'.called[1] =
                      DictGet(graph_creation_extensions,
                              Head(KeysDefining(last'.fn)), NoModule)
          /\ (/\ ~TwoUnderscores(last'.fn)
              /\ Exposing(last'.fn) # {}
              /\ last'.err # "other") => Len(last'.called) = 1]_vars

\* C15 witness: two loaded modules define f, the first of them was loaded
\* again (version 2 replaced version 1 in place), and the call of f ran the
\* function of that module.
C15_Witness ==
    /\ IsCall(last) /\ last.fn = Name_f /\ last.err = "none"
    /\ last.called = <<ModA2>>
    /\ DictValues(graph_creation_extensions) = <<ModA2, ModB>>
    /\ Cardinality(Exposing(Name_f)) = 2

\* C16: call_graph_creation_extension with a name no loaded module defines
\* fails with GaasError, evaluates no argument text, calls no function and
\* leaves the registry and the counter unchanged; the argument text is
\* evaluated only when a loaded module defines the name.
C16_UnknownNameFails ==
    [][IsCall(last')
       => /\ Exposing(last'.fn) = {} =>
                /\ last'.err = "GaasError"
                /\ last'.ev = <<>>
                /\ last'.called = <<>>
                /\ RegistryUnchanged
          /\ CountOf(last'.ev, "eval") > 0 =>
                (Exposing(last'.fn) # {} /\ ~TwoUnderscores(last'.fn))]_vars

\* C16 witness: modules are loaded, none defines g, and the call of g failed.
C16_Witness ==
    /\ IsCall(last) /\ last.fn = Name_g /\ last.err = "GaasError"
    /\ graph_creation_extensions # <<>>
    /\ Exposing(Name_g) = {}

\* C17: when the function called raises, call_graph_creation_extension fails
\* with GaasError, stores nothing and leaves the counter as it was, so the
\* next allocation gets the id this call would have got.
C17_RaisingFunctionStoresNothing ==
    [][(/\ IsCall(last') /\ last'.called # <<>>
        /\ GetAttr(last'.called[1], last'.fn) = "raise")
       => /\ last'.err = "GaasError"
          /\ CountOf(last'.ev, "__add_graph") = 0
          /\ RegistryUnchanged]_vars

\* C17 witness: g of module b_extension ran and raised, with graphs in the
\* registry and ids left to hand out.
C17_Witness ==
    /\ IsCall(last) /\ last.fn = Name_g /\ last.err = "GaasError"
    /\ last.called = <<ModB>>
    /\ graph_objs # <<>>
    /\ next_graph_id <= MaxGraphId

\* C18 as claimed: a call_graph_creation_extension whose function returned
\* stores under a new id, and a get_num_edges or delete_graph of that id
\* right after it does not fail with GaasError "invalid graph_id".
C18_ReturnedIdIsValid ==
    [][/\ (IsCall(last') /\ last'.err = "none")
          => (/\ ~DictHas(graph_objs, last'.ret)
              /\ DictHas(graph_objs', last'.ret))
       /\ (/\ IsCall(last) /\ last.err = "none"
           /\ last'.op \in {"get_num_edges", "delete_graph"}
           /\ last'.gid = last.ret)
          => last'.err # "GaasError"]_vars

\* C19 as claimed: the function called has no access to the handler, so a
\* call_graph_creation_extension changes the registry only by storing the
\* returned object under the next id; it changes neither the loaded modules
\* nor the dask client state, and the counter only by that allocation.
C19_ExtensionOnlyAddsItsResult ==
    [][IsCall(last')
       => /\ Len(graph_objs') >= Len(graph_objs)
          /\ Len(graph_objs') <= Len(graph_objs) + 1
          /\ \A i \in 1..Len(graph_objs) : graph_objs'[i] = graph_objs[i]
          /\ next_graph_id' = next_graph_id + (Len(graph_objs') - Len(graph_objs))
          /\ UNCHANGED <<graph_creation_extensions, dask_client, dask_cluster,
                         comms_initialized, open_clients>>]_vars

\* C20: load_graph_creation_extensions with a path that does not exist or is
\* not a directory fails with GaasError and leaves the loaded modules and
\* the rest of the handler's state unchanged.
C20_BadDirectoryFails ==
    [][(/\ last'.op = "load_graph_creation_extensions"
        /\ (~PathExists(last'.path) \/ ~PathIsDir(last'.path)))
       => /\ last'.err = "GaasError"
          /\ UNCHANGED <<next_graph_id, graph_objs, graph_creation_extensions,
                         dask_client, dask_cluster, comms_initialized,
                         open_clients, next_oid, load_order>>]_vars

\* C20 witness: the load of a path that is a regular file failed, with
\* modules loaded.
C20_Witness ==
    /\ last.op = "load_graph_creation_extensions"
    /\ last.path = "afile" /\ last.err = "GaasError"
    /\ graph_creation_extensions # <<>>

\* The request l was a load_graph_creation_extensions that raised nothing.
IsLoaded(l) == l.op = "load_graph_creation_extensions" /\ l.err = "none"

\* The modules of the files directly in the directory whose names end with
\* _extension.py.
ExtensionFilesOf(dir) ==
    {DirListing(dir)[i].module : i \in
        {j \in 1..Len(DirListing(dir)) :
            /\ DirListing(dir)[j].suffix = "_extension.py"
            /\ ~DirListing(dir)[j].nested}}

\* C21: a successful load_graph_creation_extensions returns the number of
\* files directly in the directory that are named *_extension.py, and
\* afterwards the stem of each of them is a key of the loaded modules.
C21_LoadCountsMatchingFiles ==
    [][IsLoaded(last')
       => /\ last'.ret = Cardinality(ExtensionFilesOf(last'.path))
          /\ \A m \in ExtensionFilesOf(last'.path) :
                DictHas(graph_creation_extensions', m.stem)]_vars

\* C21 witness: the load of dir1, which holds one matching file next to a
\* file of another name and a matching file in a subdirectory, returned 1.
C21_Witness ==
    /\ IsLoaded(last) /\ last.path = "dir1" /\ last.ret = 1
    /\ Len(DirListing("dir1")) = 3
    /\ DictHas(graph_creation_extensions, "a_extension")

\* C22: a module name is a key of the loaded modules at most once; a load
\* adds one key for each new module name and none for a name already loaded,
\* and leaves under each name it loads a module of the directory loaded; a
\* call runs a function of the module now stored under its name, so never
\* one of a module that was replaced.
C22_ReloadReplaces ==
    [][/\ \A i, j \in 1..Len(graph_creation_extensions') :
             graph_creation_extensions'[i].k = graph_creation_extensions'[j].k
             => i = j
       /\ IsLoaded(last') =>
             /\ Len(graph_creation_extensions') =
                   Len(graph_creation_extensions) +
                   Cardinality({m.stem : m \in ExtensionFilesOf(last'.path)}
                               \ SeqToSet(DictKeys(graph_creation_extensions)))
             /\ \A m \in ExtensionFilesOf(last'.path) :
                   DictGet(graph_creation_extensions', m.stem, NoModule)
                       \in ExtensionFilesOf(last'.path)
       /\ (IsCall(last') /\ last'.called # <<>>) =>
             last'.called[1] =
                 DictGet(graph_creation_extensions, last'.called[1].stem,
                         NoModule)]_vars

\* C22 witness: a_extension was loaded from dir1 (its f made the graph with
\* data that is in the registry), dir2 was loaded on top, and the load left
\* version 2 under a_extension, in the first position.
C22_Witness ==
    /\ IsLoaded(last) /\ last.path = "dir2"
    /\ DictValues(graph_creation_extensions) = <<ModA2, ModB>>
    /\ \E i \in 1..Len(graph_objs) :
          graph_objs[i].v.kind = "PG" /\ graph_objs[i].v.loaded

C24_OnlyUniformErrors == last.err \in {"none", "GaasError"}

\* The graph the request l addressed, in the registry objs it left.
Addressed(objs, l) == DictGet(objs, l.gid, NoneObj)

\* C25 as claimed: node2vec, batched_ego_graphs and get_edge_IDs_for_vertices
\* addressed to a PropertyGraph or an MGPropertyGraph fail with GaasError
\* without calling the engine.
C25_AlgorithmsRefusePropertyGraphs ==
    [][(/\ last'.op \in {"node2vec", "batched_ego_graphs",
                         "get_edge_IDs_for_vertices"}
        /\ Addressed(graph_objs', last').kind \in {"PG", "MGPG"})
       => /\ last'.err = "GaasError"
          /\ CountOf(last'.ev, "engine") = 0]_vars

\* The registry after a lookup of gid: as it was, with a new empty graph of
\* the current mode under the default id if that was looked up and absent.
AfterLookup(gid) ==
    IF gid = DefaultGraphId /\ ~DictHas(graph_objs, DefaultGraphId)
    THEN Append(graph_objs,
                [k |-> DefaultGraphId,
                 v |-> GraphObj(IF dask_client # NoClient THEN "MGPG" ELSE "PG",
                                next_oid, 0, FALSE)])
    ELSE graph_objs

\* C26 as claimed: extract_subgraph succeeds only on a property graph, then
\* stores the extracted graph under a new id, returns it and keeps the source
\* graph and every other entry; otherwise it fails with GaasError and leaves
\* the registry and the counter unchanged.
C26_Original ==
    [][last'.op = "extract_subgraph"
       => /\ last'.err \in {"none", "GaasError"}
          /\ Addressed(graph_objs', last').kind \notin {"PG", "MGPG"}
                => last'.err = "GaasError"
          /\ last'.err = "none" =>
                /\ last'.ret = next_graph_id
                /\ ~DictHas(graph_objs, last'.ret)
                /\ DictHas(graph_objs', last'.ret)
                /\ DictHas(graph_objs', last'.gid)
                /\ \A k \in GraphIds :
                      DictGet(graph_objs', k, NoneObj) =
                      DictGet(graph_objs, k, NoneObj)
          /\ last'.err # "none" =>
                /\ graph_objs' = graph_objs
                /\ next_graph_id' = next_graph_id]_vars

\* C26 amended: the same, but a failed extract_subgraph addressed to the
\* default id leaves the default graph it created in the registry; it adds
\* no other entry and consumes no id.
C26_ExtractRegistersOrFails ==
    [][last'.op = "extract_subgraph"
       => /\ last'.err \in {"none", "GaasError"}
          /\ Addressed(graph_objs', last').kind \notin {"PG", "MGPG"}
                => last'.err = "GaasError"
          /\ last'.err = "none" =>
                /\ last'.ret = next_graph_id
                /\ ~DictHas(graph_objs, last'.ret)
                /\ DictHas(graph_objs', last'.ret)
                /\ DictGet(graph_objs', last'.ret, NoneObj).kind = "G"
                /\ DictHas(graph_objs', last'.gid)
                /\ SeqToSet(DictKeys(graph_objs')) =
                      GraphIds \cup {last'.gid, last'.ret}
                /\ \A k \in GraphIds :
                      DictGet(graph_objs', k, NoneObj) =
                      DictGet(graph_objs, k, NoneObj)
                /\ next_graph_id' = next_graph_id + 1
          /\ last'.err # "none" =>
                /\ graph_objs' = AfterLookup(last'.gid)
                /\ next_graph_id' = next_graph_id]_vars

\* C26 witness: extract_subgraph of a graph with data under a non-default id
\* succeeded; the source is registered and the result was extracted from it.
C26_Witness ==
    /\ last.op = "extract_subgraph" /\ last.err = "none"
    /\ last.gid # DefaultGraphId
    /\ DictHas(graph_objs, last.gid) /\ DictHas(graph_objs, last.ret)
    /\ Addressed(graph_objs, last).loaded
    /\ DictGet(graph_objs, last.ret, NoneObj).src =
          Addressed(graph_objs, last).oid

\* C27 as claimed: is_vertex_property and is_edge_property addressed to a
\* PropertyGraph or an MGPropertyGraph do not fail with GaasError ("Graph
\* does not contain properties").
C27_PropertyTestsAcceptPropertyGraphs ==
    [][(/\ last'.op \in {"is_vertex_property", "is_edge_property"}
        /\ Addressed(graph_objs', last').kind \in {"PG", "MGPG"})
       => last'.err # "GaasError"]_vars

\* ---------------------------------------------------------------------------
\* Dataframe rows

\* The row selector has a negative index other than the single value -1.
NegativeSelector(sel) ==
    IF sel.kind = "int" THEN sel.v[1] < -1
    ELSE \E k \in 1..Len(sel.v) : sel.v[k] < 0

\* The rows the request should see for "select all": every stored row in
\* storage order, over the columns selected, missing cells replaced.
AllRows(m) ==
    [r \in 1..Len(m.df.rows) |->
        [c \in 1..Len(m.cols) |->
            IF m.df.rows[r][m.cols[c]] = NA THEN m.n ELSE m.df.rows[r][m.cols[c]]]]

\* The row selector only has positions of stored rows.
ValidSelector(m) ==
    \A k \in 1..Len(m.sel.v) : m.sel.v[k] \in 0..(Len(m.df.rows) - 1)

\* C28: a dataframe-rows request whose row selector has a negative index other
\* than the single value -1 (one index below -1, or a list with a negative
\* element) fails with GaasError and returns no rows.
C28_NegativeIndexFails ==
    (marshal.served /\ NegativeSelector(marshal.sel))
        => (marshal.err = "GaasError" /\ marshal.out = <<>>)

Bookkeeping ==
    {"_VERTEX_", "_SRC_", "_DST_", "_TYPE_", "_EDGE_ID_", "_VERTEX_ID_",
     "_WEIGHT_"}

\* seq without the elements of the set, the others in their order.
Without(seq, set) == SelectSeq(seq, LAMBDA x : x \notin set)

\* C30: with an empty key filter the columns selected are the table's columns
\* without the bookkeeping columns, the others in their order; with a
\* non-empty filter they are the requested keys in the requested order; a
\* requested key that is not a column fails the request with an error naming
\* such a key.
C30_ColumnSelection ==
    marshal.served
        => LET wanted == IF marshal.keys = <<>>
                         THEN Without(marshal.df.cols, Bookkeeping)
                         ELSE marshal.keys
               absent == SeqToSet(marshal.keys) \ SeqToSet(marshal.df.cols)
           IN /\ (absent # {}) => (marshal.err = "GaasError"
                                      /\ marshal.key \in absent)
              /\ (absent = {}) => marshal.key = ""
              /\ (marshal.err = "none") => marshal.cols = wanted
              /\ (marshal.err = "none")
                     => \A k \in 1..Len(marshal.out) :
                            Len(marshal.out[k]) = Len(wanted)

\* All columns of an edge table with a weight column were requested with an
\* empty filter, and the rows came back with the two user columns.
C30_Witness ==
    /\ marshal.served /\ marshal.err = "none"
    /\ marshal.keys = <<>>
    /\ "_WEIGHT_" \in SeqToSet(marshal.df.cols)
    /\ marshal.cols = <<"q", "p">>
    /\ marshal.out # <<>>

\* C31: a dataframe-rows request leaves the stored table as it was, missing
\* cells included; a later request for the same columns and rows with another
\* null-replacement value succeeds when the first did, and its payload has the
\* new value in exactly the cells that are missing in the stored table and the
\* first payload's value in every other cell.
C31_SubstitutionOnlyInPayload ==
    [][(marshal # NoMarshal)
       => /\ marshal'.df = marshal.df
          /\ (marshal'.first # <<>> /\ marshal.err = "none" /\ ~marshal.df.dask)
                 => /\ marshal'.err = "none"
                    /\ Len(marshal'.out) = Len(marshal.out)
                    /\ \A k \in 1..Len(marshal.out) :
                         \A c \in 1..Len(marshal.cols) :
                            LET taken == IF marshal.sel = [kind |-> "int",
                                                           v |-> <<-1>>]
                                         THEN k
                                         ELSE LET i == marshal.sel.v[k]
                                              IN IF i < 0
                                                 THEN Len(marshal.df.rows) + i + 1
                                                 ELSE i + 1
                                stored == marshal.df.rows[taken][marshal.cols[c]]
                            IN IF stored = NA
                               THEN /\ marshal.out[k][c] = marshal.n
                                    /\ marshal'.out[k][c] = marshal'.n
                               ELSE /\ marshal.out[k][c] = stored
                                    /\ marshal'.out[k][c] = stored]_vars

\* Two requests with different null-replacement values were served on a table
\* with a missing cell, and the payloads differ.
C31_Witness ==
    /\ marshal.served /\ marshal.first # <<>>
    /\ marshal.err = "none"
    /\ marshal.first[1].err = "none"
    /\ marshal.first[1].n # marshal.n
    /\ marshal.first[1].out # marshal.out
    /\ \E r \in 1..Len(marshal.df.rows) : marshal.df.rows[r]["p"] = NA

\* C36: in every reachable state the counter is above the default id and
\* above every non-default id of the registry; it never decreases; an
\* id-allocating operation that returns an id returns neither the default id
\* nor an id that was in the registry when it was called.
C36_CounterAboveIds ==
    /\ [](/\ next_graph_id > DefaultGraphId
          /\ \A id \in GraphIds : id # DefaultGraphId => id < next_graph_id)
    /\ [][/\ next_graph_id' >= next_graph_id
          /\ (last'.op \in AllocatingOps /\ last'.err = "none")
                => /\ last'.ret # DefaultGraphId
                   /\ ~DictHas(graph_objs, last'.ret)
                   /\ DictHas(graph_objs', last'.ret)]_vars

\* An extraction stored its result under the second id handed out, next to
\* the default graph and the graph it extracted from.
C36_Witness ==
    /\ last.op = "extract_subgraph" /\ last.err = "none"
    /\ last.ret = DefaultGraphId + 2
    /\ DefaultGraphId \in GraphIds
    /\ Len(graph_objs) = 3

\* C37: over every sequence of initialize_dask_client and shutdown_dask_client
\* requests at most one dask client is open at any time, an
\* initialize_dask_client that raises leaves the mode as it was, and after
\* shutdown_dask_client has returned no client is open.
C37_AtMostOneClient ==
    /\ [](Cardinality(open_clients) <= 1)
    /\ [][/\ (last'.op = "initialize_dask_client" /\ last'.err # "none")
                => (dask_client' # NoClient) = (dask_client # NoClient)
          /\ (last'.op = "shutdown_dask_client" /\ last'.err = "none")
                => open_clients' = {}]_vars

\* C38: initialize_dask_client and shutdown_dask_client leave the registry
\* (its ids, the objects stored and their kinds), the counter and the loaded
\* extension modules as they were, whether they raise or not.
C38_ModeChangeKeepsRegistry ==
    [][(last'.op \in {"initialize_dask_client", "shutdown_dask_client"})
       => /\ graph_objs' = graph_objs
          /\ next_graph_id' = next_graph_id
          /\ graph_creation_extensions' = graph_creation_extensions]_vars

\* shutdown_dask_client returned with a graph of each kind registered and an
\* extension module loaded.
C38_Witness ==
    /\ last.op = "shutdown_dask_client"
    /\ last.ev # <<>>
    /\ dask_client = NoClient
    /\ \E i, j \in 1..Len(graph_objs) :
          graph_objs[i].v.kind = "MGPG" /\ graph_objs[j].v.kind = "PG"
    /\ graph_creation_extensions # <<>>

\* The object stored under id in objs, by identity (0: no entry).
OidUnder(objs, id) == DictGet(objs, id, NoneObj).oid

\* C39: an operation other than create_graph, extract_subgraph,
\* call_graph_creation_extension, uniform_neighbor_sample and delete_graph
\* leaves the counter and every non-default entry of the registry as they
\* were, whether it raises or not; the default entry is as it was or, when it
\* was absent and the operation looked the default id up, is a graph made
\* by this operation.
C39_OnlyLazyDefaultInsertion ==
    [][(last'.op \notin (AllocatingOps \cup {"delete_graph"}))
       => /\ next_graph_id' = next_graph_id
          /\ \A id \in GraphIds \cup SeqToSet(DictKeys(graph_objs')) :
                id # DefaultGraphId
                   => /\ DictHas(graph_objs', id) = DictHas(graph_objs, id)
                      /\ OidUnder(graph_objs', id) = OidUnder(graph_objs, id)
          /\ \/ /\ DictHas(graph_objs', DefaultGraphId)
                      = DictHas(graph_objs, DefaultGraphId)
                /\ OidUnder(graph_objs', DefaultGraphId)
                      = OidUnder(graph_objs, DefaultGraphId)
             \/ /\ ~DictHas(graph_objs, DefaultGraphId)
                /\ LookedUp(last') /\ last'.gid = DefaultGraphId
                /\ DictHas(graph_objs', DefaultGraphId)
                /\ OidUnder(graph_objs', DefaultGraphId) = next_oid
                /\ DictGet(graph_objs', DefaultGraphId, NoneObj).src = 0]_vars

\* An algorithm addressed to the default id raised, and the default graph it
\* made on the way is the only entry of the registry.
C39_Witness ==
    /\ last.op = "node2vec" /\ last.err # "none"
    /\ last.gid = DefaultGraphId
    /\ DictKeys(graph_objs) = <<DefaultGraphId>>
    /\ OidUnder(graph_objs, DefaultGraphId) = next_oid - 1
    /\ next_graph_id = DefaultGraphId + 1

\* ---------------------------------------------------------------------------
\* Server and clients

\* C32 as claimed: a create_client that could not connect raises an error of
\* another kind than the GaasError of the server.
C32_Original ==
    (last.op = "create_client" /\ last.ev # <<"connected">>)
        => last.err # "GaasError"

\* C32: a create_client whose connection fails with TTransportException
\* raises GaasError, the kind the server raises for bad requests, and the
\* client is not connected; any other exception of make_client is raised as
\* it is.
C32_ConnectFailureIsGaasError ==
    [][(last'.op = "create_client")
       => /\ (last'.ev = <<"TTransportException">>)
                => last'.err = "GaasError"
          /\ (last'.ev = <<"other">>) => last'.err = "other"
          /\ (last'.ev = <<"connected">>) => last'.err = "none"
          /\ \A c \in Conns :
                (server.conn[c].pc = "closed" /\ server'.conn[c].pc # "closed")
                   => last'.err = "none"]_vars

\* A create_client failed with GaasError while another client is connected.
C32_Witness ==
    /\ last.op = "create_client" /\ last.err = "GaasError"
    /\ \E c \in Conns : server.conn[c].pc = "idle"
    /\ \E c \in Conns : server.conn[c].pc = "closed"

\* The handler is between the statements of __add_graph or of _get_graph for
\* the call of connection c, and no other call has changed what it read.
Undisturbed(c) ==
    LET t == server.conn[c] IN
    /\ (t.pc \in {"add_store", "add_incr"}) => t.loc = next_graph_id
    /\ (t.pc = "add_store") => ~DictHas(graph_objs, t.loc)
    /\ (t.pc = "add_incr") => DictHas(graph_objs, t.loc)
    /\ (t.pc = "get_store") => ~DictHas(graph_objs, DefaultGraphId)

\* C33: with the server of create_server at most one call is in the handler
\* at any time, and a call is taken only when none is; so between the
\* statements of __add_graph (read, store, increment) and of _get_graph
\* (test, create) nothing the call has read is changed by another call.
C33_OneRequestAtATime ==
    /\ [](/\ Cardinality(Busy) <= 1
          /\ \A c \in Conns : Undisturbed(c))
    /\ [][\A c \in Conns :
             (server.conn[c].pc = "sent" /\ server'.conn[c].pc # "sent")
                => Busy = {}]_vars

\* A call is between the store and the increment of __add_graph while the
\* call of another client waits to be read.
C33_Witness ==
    \E c, d \in Conns :
        /\ server.conn[c].pc = "add_incr"
        /\ server.conn[d].pc = "sent"

\* C34: with a worker pool and every handler operation under one lock, the
\* ids returned by id-allocating operations are pairwise distinct, every id
\* returned and not deleted is in the registry, and the default graph is made
\* at most once between deletions of the default id.
C34_LockedPoolKeepsRegistry ==
    /\ \A i, j \in 1..Len(create_rets) :
          i # j => create_rets[i] # create_rets[j]
    /\ \A i \in 1..Len(create_rets) :
          create_rets[i] \notin deleted => DictHas(graph_objs, create_rets[i])
    /\ server.made <= 1

\* Two allocating calls were taken by workers at the same time: one holds the
\* lock between the read and the store of __add_graph, the other waits for
\* the lock.
C34_Witness ==
    \E c, d \in Conns :
        /\ server.conn[c].pc = "add_store" /\ server.lock = c
        /\ server.conn[d].pc = "lock"
        /\ server.conn[d].op = "create_graph"

\* C35: a call_graph_creation_extension whose client stopped waiting while
\* the extension function runs is completed by the server; when the function
\* returned a graph, the reply carries an id that is in get_graph_ids; and an
\* id leaves get_graph_ids only by a delete_graph of that id.
C35_TimedOutCallCompletes ==
    /\ \A c \in Conns :
          (/\ server.conn[c].pc = "func"
           /\ ~server.conn[c].waiting)
             ~> (/\ server.conn[c].pc = "idle"
                 /\ last.op = "call_graph_creation_extension"
                 /\ (last.err = "none" => last.ret \in GraphIds))
    /\ [][\A id \in GraphIds :
             id \notin SeqToSet(DictKeys(graph_objs'))
                => (last'.op = "delete_graph" /\ last'.gid = id)]_vars

\* The graph of an extension call whose client stopped waiting is registered.
C35_Witness ==
    \E c \in Conns :
        /\ server.conn[c].op = "call_graph_creation_extension"
        /\ server.conn[c].pc = "add_incr"
        /\ ~server.conn[c].waiting
        /\ DictHas(graph_objs, server.conn[c].loc)
====
